---- MODULE Spec2Model ----
(***************************************************************************)
(* A model of the patch-graph manager (PatchManager), the node-level       *)
(* mechanical connect/disconnect/dispose of EurorackAudioNode and the      *)
(* registration/dispose layering of BaseModule.                            *)
(*                                                                         *)
(* Node objects are distinct from node ids: two objects may carry the same *)
(* id, and the registry maps an id to one object.  The native audio graph  *)
(* is the set of links between the native primitives wrapped by ports; a   *)
(* native connect or disconnect may throw, which is an input of the        *)
(* operation that invokes it.                                              *)
(***************************************************************************)
EXTENDS Integers, Sequences, FiniteSets, TLC

\* ------------------------------------------------------------------ bounds

\* Connection ids generateConnectionId can return are drawn from 1..MaxConnIds.
MaxConnIds == 2

\* The manager is constructed with maxConnections in 0..MaxConfig, or with no
\* maxConnections at all.
MaxConfig == 1

\* setParameter and the gain operations are called with NaN, with every value
\* of -1..MaxInput and with the values next to each parameter's bounds.
MaxInput == 5

\* The native audio contexts the environment can construct.
MaxContexts == 2

\* The close() calls that can be suspended at their await at one time.
MaxClosing == 2

\* The AudioContextManager objects getAudioManager() can construct.
MaxManagers == 2

\* A gain node is configured with minGain, maxGain and initialGain in
\* 0..MaxGain.
MaxGain == 3

\* The callbacks a caller passes to onStateChange are 1..MaxCallbacks.
MaxCallbacks == 2

\* The handles requestAnimationFrame can return are 1..MaxFrames.
MaxFrames == 3

\* ------------------------------------------------------- program constants

\* `config.maxConnections || 1000`
DefaultMaxConnections == 1000

\* ------------------------------------------------------------ the universe

NoConfig == -1
NoNode == 0
NoConn == [id |-> 0]
NoContext == 0
NoManager == 0
NoHandle == 0

\* The node objects the environment may construct.  Objects 1..3 are the ones
\* the full life cycle is explored on: a FilterModule, a plain
\* EurorackGainNode, and an OscillatorModule (default configuration: no input)
\* that is given the id the gain node also carries.  Objects 4..6 are three
\* processing nodes with distinct ids, on which the patch graph is explored.
\* Object 7 is the OscillatorModule OscillatorModule.deserialize constructs
\* from the data object 3 serialized.  Object 8 is an OutputModule (default
\* configuration: one input, no output).
NodeTable ==
  << [id |-> "filter-1", kind |-> "FilterModule",     isModule |-> TRUE,
      inputs |-> {"input"}, outputs |-> {"output"}],
     [id |-> "gain-1",   kind |-> "EurorackGainNode", isModule |-> FALSE,
      inputs |-> {"input"}, outputs |-> {"output"}],
     [id |-> "gain-1",   kind |-> "OscillatorModule", isModule |-> TRUE,
      inputs |-> {},        outputs |-> {"output"}],
     [id |-> "node-1",   kind |-> "FilterModule",     isModule |-> TRUE,
      inputs |-> {"input"}, outputs |-> {"output"}],
     [id |-> "node-2",   kind |-> "VCAModule",        isModule |-> TRUE,
      inputs |-> {"input"}, outputs |-> {"output"}],
     [id |-> "node-3",   kind |-> "EurorackGainNode", isModule |-> FALSE,
      inputs |-> {"input"}, outputs |-> {"output"}],
     [id |-> "gain-1",   kind |-> "OscillatorModule", isModule |-> TRUE,
      inputs |-> {},        outputs |-> {"output"}],
     [id |-> "output-1", kind |-> "OutputModule",     isModule |-> TRUE,
      inputs |-> {"input"}, outputs |-> {}] >>

\* createParameter(name, defaultValue, minValue, maxValue) as initialize() of
\* each kind of node calls it.  The filter's resonance, whose lower bound 0.1
\* is no integer, and the output module's two levels, whose default 0.7 is
\* none, are left out.
AudioParameter(defaultValue, minValue, maxValue) ==
  [value |-> defaultValue, minValue |-> minValue, maxValue |-> maxValue]
\* What applyConfig() adds for each option of each kind of module: the inputs
\* it creates and the parameters it creates.
OptionTable ==
  [FilterModule |->
     [enableCutoffCV |->
        [inputs |-> {"cutoffCV"},
         parameters |-> [cutoffCVAmount |-> AudioParameter(0, 0 - 1000, 1000)]],
      enableResonanceCV |->
        [inputs |-> {"resonanceCV"},
         parameters |-> [resonanceCVAmount |-> AudioParameter(0, 0 - 10, 10)]]],
   OscillatorModule |->
     [enableFM |->
        [inputs |-> {"fm"},
         parameters |-> [fmAmount |-> AudioParameter(0, 0, 1000)]],
      enableSync |-> [inputs |-> {"sync"}, parameters |-> <<>>]],
   VCAModule |->
     [enableCV |->
        [inputs |-> {"cv"},
         parameters |-> [cvAmount |-> AudioParameter(0, 0 - 1, 1)]]],
   EurorackGainNode |-> <<>>,
   OutputModule |-> <<>>]
Options(o) == DOMAIN OptionTable[NodeTable[o].kind]

ParameterTable ==
  [FilterModule |-> [cutoff |-> AudioParameter(1000, 20, 20000)],
   EurorackGainNode |-> [gain |-> AudioParameter(1, 0, 2)],
   OscillatorModule |-> [frequency |-> AudioParameter(440, 20, 20000),
                         detune |-> AudioParameter(0, 0 - 1200, 1200)],
   VCAModule |-> [level |-> AudioParameter(1, 0, 1)],
   OutputModule |-> <<>>]

Obj == DOMAIN NodeTable
LifeObj == {o \in Obj : o <= 3}
GraphObj == {o \in Obj : 4 <= o /\ o <= 6}
idOf(o) == NodeTable[o].id
IsModule(o) == NodeTable[o].isModule
NodeIds == {NodeTable[o].id : o \in Obj}
LifeIds == {idOf(o) : o \in LifeObj}
GraphIds == {idOf(o) : o \in GraphObj}
ConnIds == 1..MaxConnIds
Configs == {NoConfig} \cup (0..MaxConfig)

\* The numbers of the program are integers and NaN, for which every
\* comparison is false and which Math.min and Math.max propagate.
NaN == -999999
MathMin(a, b) == IF a = NaN \/ b = NaN THEN NaN ELSE IF a < b THEN a ELSE b
MathMax(a, b) == IF a = NaN \/ b = NaN THEN NaN ELSE IF a > b THEN a ELSE b
LessOrEqual(a, b) == a # NaN /\ b # NaN /\ a <= b

\* Port names a caller may pass.
OutputNames == {"output"}
InputNames == {"input"}

\* ------------------------------------------------------------------- state

VARIABLES
  maxConnections,  \* PatchManager.maxConnections
  nodes,           \* PatchManager.nodes: node id -> registered object or NoNode
  connections,     \* PatchManager.connections, in Map insertion order
  objState,        \* each object: "none" (not constructed), "live", "disposed"
  inputs,          \* EurorackAudioNode.inputs: object -> [name -> connected flag]
  outputs,         \* EurorackAudioNode.outputs: object -> [name -> fan-out set]
  native,          \* links of the native graph: <<object, output, object, input>>
  parameters,      \* EurorackAudioNode.parameters: object -> [name -> AudioParameter]
  isActive,        \* this.isActive of each object
  hooks,           \* the hooks the last start/stop/activate/deactivate invoked
  config,          \* this.config of each module: the options that are enabled
  registeredNames, \* the port and parameter names each module registered with
  audio,           \* the AudioContextManager and the native contexts constructed
  managers,        \* the AudioContextManager objects getAudioManager() constructed
  globalAudioManager, \* the module variable: an index of managers, or NoManager
  contexts,        \* the state of every native context those managers constructed
  oscillator,      \* OscillatorModule fields of each object, and its native node
  position,        \* BaseModule.position of each object
  serialized,      \* the data object serialize() returned, or NoData
  ui,              \* BaseModule.ui of the oscillator: its lists of declarations
  declarations,    \* the knob and LED declaration objects, by reference
  callerUI,        \* the structure the caller holds: what getUI() returned
  lastHook,        \* each object: the last of onStart, onStop invoked on it, or ""
  levelMonitoringId, \* OutputModule.levelMonitoringId, NoHandle for undefined
  frames,          \* the animation-frame callbacks the platform holds, by handle
  handles,         \* the number of handles requestAnimationFrame has returned
  listeners,       \* AudioContextManager.listeners: the callbacks subscribed
  attached,        \* the native contexts handleStateChange is registered on
  stale,           \* the callbacks unsubscribed, or subscribed when a close() completed
  last             \* the last operation called and how it ended

globalVars == <<managers, globalAudioManager, contexts>>
moduleVars == <<oscillator, position, serialized>>
uiVars == <<ui, declarations, callerUI>>
historyVars == <<lastHook>>
meterVars == <<levelMonitoringId, frames, handles>>
listenerVars == <<listeners, attached, stale>>

vars == <<maxConnections, nodes, connections, objState, inputs, outputs,
          native, parameters, isActive, hooks, config, registeredNames, audio,
          globalVars, moduleVars, uiVars, historyVars,
          meterVars, listenerVars, last>>

\* The part of the state the manager and the nodes operate on, as one value.
State ==
  [nodes |-> nodes, connections |-> connections, objState |-> objState,
   inputs |-> inputs, outputs |-> outputs, native |-> native,
   parameters |-> parameters]

\* How an operation ends: the state it leaves, the error it throws ("none"
\* when it returns) and the number of console.warn calls it made.
Ok(st) == [st |-> st, err |-> "none", warned |-> 0]
Throw(st, e) == [st |-> st, err |-> e, warned |-> 0]
Warned(r, n) == [r EXCEPT !.warned = @ + n]

\* An empty port map.
NoPorts == [n \in {} |-> FALSE]

\* getInputNames(), getOutputNames() and getParameterNames() of a node with
\* empty maps.
NoNames == [inputs |-> {}, outputs |-> {}, parameters |-> {}]

\* -------------------------------------------------- EurorackAudioNode layer

\* The state after initialize(): every declared input unconnected, every
\* declared output with an empty fan-out set.
InitialInputs(o) == [n \in NodeTable[o].inputs |-> FALSE]
InitialOutputs(o) == [n \in NodeTable[o].outputs |-> {}]
InitialParameters(o) == ParameterTable[NodeTable[o].kind]

\* input.connected = flag, for every input port of `ports` the node still
\* holds in its inputs map (a port object dropped by dispose is unobservable).
SetConnected(ins, ports, flag) ==
  [o \in Obj |->
     [n \in DOMAIN ins[o] |-> IF <<o, n>> \in ports THEN flag ELSE ins[o][n]]]

\* Mutant of NodeConnect: the fan-out set and the connected flag are updated
\* before the native connect is attempted.
NodeConnect_MarkFirst(st, src, outName, tgt, inName, nativeFails) ==
  IF outName \notin DOMAIN st.outputs[src] THEN Throw(st, "OutputNotFound")
  ELSE IF inName \notin DOMAIN st.inputs[tgt] THEN Throw(st, "InputNotFound")
  ELSE LET marked == [st EXCEPT
                        !.outputs[src][outName] = @ \cup {<<tgt, inName>>},
                        !.inputs = SetConnected(@, {<<tgt, inName>>}, TRUE)]
       IN IF nativeFails THEN Throw(marked, "NativeConnectFailed")
          ELSE Ok([marked EXCEPT
                     !.native = @ \cup {<<src, outName, tgt, inName>>}])

\* EurorackAudioNode.connect(outputName, target, inputName)
NodeConnect(st, src, outName, tgt, inName, nativeFails) ==
  IF outName \notin DOMAIN st.outputs[src] THEN Throw(st, "OutputNotFound")
  ELSE IF inName \notin DOMAIN st.inputs[tgt] THEN Throw(st, "InputNotFound")
  ELSE IF nativeFails THEN Throw(st, "NativeConnectFailed")
  ELSE Ok([st EXCEPT
             !.native = @ \cup {<<src, outName, tgt, inName>>},
             !.outputs[src][outName] = @ \cup {<<tgt, inName>>},
             !.inputs = SetConnected(@, {<<tgt, inName>>}, TRUE)])

\* EurorackAudioNode.disconnect(outputName, target, inputName)
NodeDisconnect(st, src, outName, tgt, inName, nativeFails) ==
  IF outName \notin DOMAIN st.outputs[src] THEN Throw(st, "OutputNotFound")
  ELSE IF inName \notin DOMAIN st.inputs[tgt] THEN Throw(st, "InputNotFound")
  ELSE IF nativeFails THEN Throw(st, "NativeDisconnectFailed")
  ELSE Ok([st EXCEPT
             !.native = @ \ {<<src, outName, tgt, inName>>},
             !.outputs[src][outName] = @ \ {<<tgt, inName>>},
             !.inputs = SetConnected(@, {<<tgt, inName>>}, FALSE)])

\* EurorackAudioNode.disconnect(outputName): the output is unlinked natively
\* from every destination, the inputs of its fan-out set are marked
\* unconnected, the set is cleared.
NodeDisconnectOutput(st, o, outName, nativeFails) ==
  IF outName \notin DOMAIN st.outputs[o] THEN Throw(st, "OutputNotFound")
  ELSE IF nativeFails THEN Throw(st, "NativeDisconnectFailed")
  ELSE Ok([st EXCEPT
             !.native = {l \in @ : ~(l[1] = o /\ l[2] = outName)},
             !.inputs = SetConnected(@, st.outputs[o][outName], FALSE),
             !.outputs[o][outName] = {}])

\* EurorackAudioNode.disconnect(): every output is unlinked natively, the
\* inputs of its fan-out set are marked unconnected, the set is cleared.  A
\* node declares at most one output, so a throwing native disconnect() leaves
\* nothing half done.
NodeDisconnectAll(st, o, nativeFails) ==
  LET outs == DOMAIN st.outputs[o]
      fan == UNION {st.outputs[o][n] : n \in outs}
  IN IF outs # {} /\ nativeFails THEN Throw(st, "NativeDisconnectFailed")
     ELSE Ok([st EXCEPT
                !.native = {l \in @ : l[1] # o},
                !.inputs = SetConnected(@, fan, FALSE),
                !.outputs[o] = [n \in outs |-> {}]])

\* EurorackAudioNode.dispose(): disconnect(), onDispose(), then the port maps
\* are cleared.  `fails` is "none", "disconnect" (the native disconnect()
\* inside this.disconnect() throws) or "onDispose" (the hook's native cleanup
\* throws).
NodeDispose(st, o, fails) ==
  LET d == NodeDisconnectAll(st, o, fails = "disconnect")
  IN IF d.err # "none" THEN d
     ELSE IF fails = "onDispose" THEN Throw(d.st, "NativeDisconnectFailed")
     ELSE Ok([d.st EXCEPT
                !.inputs[o] = NoPorts,
                !.outputs[o] = [n \in {} |-> {}],
                !.parameters[o] = NoPorts,
                !.objState[o] = "disposed"])

\* Math.max(param.minValue, Math.min(param.maxValue, value))
ClampedValue(param, value) ==
  MathMax(param.minValue, MathMin(param.maxValue, value))

\* EurorackAudioNode.setParameter(name, value); onParameterChange and the
\* BaseModule override's UI hooks write to the native AudioParam and to LEDs,
\* not to the parameter map.
SetParameter(st, o, name, value) ==
  IF name \notin DOMAIN st.parameters[o] THEN Throw(st, "ParameterNotFound")
  ELSE Ok([st EXCEPT !.parameters[o][name].value =
                       ClampedValue(st.parameters[o][name], value)])

\* EurorackGainNode.setGain(value)
SetGain(st, o, value) == SetParameter(st, o, "gain", value)

\* EurorackGainNode.setGainAtTime(value, when)
SetGainAtTime(st, o, value) ==
  IF "gain" \notin DOMAIN st.parameters[o] THEN Ok(st)
  ELSE Ok([st EXCEPT !.parameters[o]["gain"].value =
                       ClampedValue(st.parameters[o]["gain"], value)])

\* EurorackGainNode.linearRampToGain(value, when)
LinearRampToGain(st, o, value) ==
  IF "gain" \notin DOMAIN st.parameters[o] THEN Ok(st)
  ELSE Ok([st EXCEPT !.parameters[o]["gain"].value =
                       ClampedValue(st.parameters[o]["gain"], value)])

\* EurorackGainNode.exponentialRampToGain(value, when): the native ramp gets
\* Math.max(0.0001, clampedValue), the parameter the clamped value.
ExponentialRampToGain(st, o, value) ==
  IF "gain" \notin DOMAIN st.parameters[o] THEN Ok(st)
  ELSE Ok([st EXCEPT !.parameters[o]["gain"].value =
                       ClampedValue(st.parameters[o]["gain"], value)])

\* The life-cycle operations act on the object's isActive property and invoke
\* hooks: `ls` is [isActive, hooks], hooks being the invocations so far.
\* EurorackAudioNode and BaseModule both declare `protected isActive = false`:
\* one property of the object, read and written by both layers.

\* Mutant of Start: no early return for an active node.
Start_Always(ls) ==
  [isActive |-> TRUE, hooks |-> Append(ls.hooks, "onStart")]

\* EurorackAudioNode.start(when)
Start(ls) ==
  IF ls.isActive THEN ls
  ELSE [isActive |-> TRUE, hooks |-> Append(ls.hooks, "onStart")]

\* EurorackAudioNode.stop(when)
Stop(ls) ==
  IF ~ls.isActive THEN ls
  ELSE [isActive |-> FALSE, hooks |-> Append(ls.hooks, "onStop")]

\* onActivate() and onDeactivate() of FilterModule, OscillatorModule,
\* OutputModule and VCAModule: this.start(), this.stop().
OnActivate(ls) == Start([ls EXCEPT !.hooks = Append(@, "onActivate")])
OnDeactivate(ls) == Stop([ls EXCEPT !.hooks = Append(@, "onDeactivate")])

\* Mutant of Activate: no test of isActive.
Activate_Always(ls) ==
  OnActivate(Start([ls EXCEPT !.isActive = TRUE]))

\* BaseModule.activate()
Activate(ls) ==
  IF ~ls.isActive THEN OnActivate(Start([ls EXCEPT !.isActive = TRUE]))
  ELSE ls

\* BaseModule.deactivate()
Deactivate(ls) ==
  IF ls.isActive THEN OnDeactivate(Stop([ls EXCEPT !.isActive = FALSE]))
  ELSE ls

\* The onStart and onStop invocations among the hook invocations hs, in
\* order, and the last of them, `prev` when there is none.
StartStops(hs) == SelectSeq(hs, LAMBDA h : h \in {"onStart", "onStop"})
LastStartStop(prev, hs) ==
  IF StartStops(hs) = <<>> THEN prev ELSE StartStops(hs)[Len(StartStops(hs))]

\* Level metering of an OutputModule: `m` is [levelMonitoringId, frames,
\* handles], frames being the callbacks the platform's animation-frame list
\* holds.  requestAnimationFrame(updateLevel) returns the next handle, a
\* positive integer, and adds the callback under it; cancelAnimationFrame(h)
\* removes it.
Meter == [levelMonitoringId |-> levelMonitoringId, frames |-> frames,
          handles |-> handles]

\* updateLevel(): the level is read and the LED updated, and then
\* this.levelMonitoringId = requestAnimationFrame(updateLevel).
UpdateLevel(m) ==
  [levelMonitoringId |-> m.handles + 1,
   frames |-> m.frames \cup {m.handles + 1},
   handles |-> m.handles + 1]

\* startLevelMonitoring(): updateLevel() is called once.
StartLevelMonitoring(m) == UpdateLevel(m)

\* Mutant of StopLevelMonitoring: the handle is forgotten, not cancelled.
StopLevelMonitoring_Forget(m) ==
  IF m.levelMonitoringId # NoHandle
  THEN [m EXCEPT !.levelMonitoringId = NoHandle]
  ELSE m

\* stopLevelMonitoring()
StopLevelMonitoring(m) ==
  IF m.levelMonitoringId # NoHandle
  THEN [m EXCEPT !.frames = @ \ {m.levelMonitoringId},
                 !.levelMonitoringId = NoHandle]
  ELSE m

\* The platform runs the callback held under handle h: it leaves the list
\* and updateLevel() runs.
AnimationFrame(m, h) == UpdateLevel([m EXCEPT !.frames = @ \ {h}])

\* ------------------------------------------------- AudioContextManager layer

\* The manager is `am`: context (the index of a native context, or NoContext
\* for null), initialized, closing (the close() calls suspended at
\* `await this.context.close()`, each as the context whose native close() it
\* awaits), and states, the state of every native context constructed so far.  A call ends with the manager it leaves, the
\* error it throws, the context it returns and the number of native contexts
\* it constructed.
NewAudioContextManager ==
  [context |-> NoContext, initialized |-> FALSE, closing |-> <<>>,
   states |-> <<>>]
ContextStates == {"suspended", "running", "closed"}
AudioResult(am, err, returned, constructed) ==
  [am |-> am, err |-> err, returned |-> returned, constructed |-> constructed]

\* Mutant of AudioInitialize: a new context is constructed on every call.
AudioInitialize_Always(am, nativeFails, state) ==
  IF nativeFails THEN AudioResult(am, "FailedToInitialize", NoContext, 0)
  ELSE AudioResult([am EXCEPT !.states = Append(@, state),
                              !.context = Len(am.states) + 1,
                              !.initialized = TRUE],
                   "none", Len(am.states) + 1, 1)

\* initialize(): `new AudioContext(...)` throws iff nativeFails, and the
\* context it constructs starts in `state`.
AudioInitialize(am, nativeFails, state) ==
  IF am.context # NoContext /\ am.states[am.context] # "closed"
    THEN AudioResult(am, "none", am.context, 0)
  ELSE IF nativeFails THEN AudioResult(am, "FailedToInitialize", NoContext, 0)
  ELSE AudioResult([am EXCEPT !.states = Append(@, state),
                              !.context = Len(am.states) + 1,
                              !.initialized = TRUE],
                   "none", Len(am.states) + 1, 1)

\* Mutant of AudioResume: without a context the call returns.
AudioResume_Silent(am) ==
  IF am.context = NoContext THEN AudioResult(am, "none", NoContext, 0)
  ELSE IF am.states[am.context] = "suspended"
    THEN AudioResult([am EXCEPT !.states[am.context] = "running"], "none", NoContext, 0)
  ELSE AudioResult(am, "none", NoContext, 0)

\* resume()
AudioResume(am) ==
  IF am.context = NoContext THEN AudioResult(am, "NotInitialized", NoContext, 0)
  ELSE IF am.states[am.context] = "suspended"
    THEN AudioResult([am EXCEPT !.states[am.context] = "running"], "none", NoContext, 0)
  ELSE AudioResult(am, "none", NoContext, 0)

\* suspend()
AudioSuspend(am) ==
  IF am.context = NoContext THEN AudioResult(am, "NotInitialized", NoContext, 0)
  ELSE IF am.states[am.context] = "running"
    THEN AudioResult([am EXCEPT !.states[am.context] = "suspended"], "none", NoContext, 0)
  ELSE AudioResult(am, "none", NoContext, 0)

\* close() up to its await: the native close() of the current context is
\* called.  The native promise always resolves; whether the context already
\* reads "closed" while the call is suspended is the platform's choice,
\* `settled`.
AudioClose(am, settled) ==
  IF am.context = NoContext THEN AudioResult(am, "none", NoContext, 0)
  ELSE AudioResult([am EXCEPT
                      !.states[am.context] = IF settled THEN "closed" ELSE @,
                      !.closing = Append(@, am.context)],
                   "none", NoContext, 0)

\* The sequence s without its k-th element.
Without(s, k) == SubSeq(s, 1, k - 1) \o SubSeq(s, k + 1, Len(s))

\* Mutant of AudioClosed: the reference to the closed context is kept.
AudioClosed_KeepContext(am, k) ==
  AudioResult([am EXCEPT !.states[am.closing[k]] = "closed",
                         !.initialized = FALSE,
                         !.closing = Without(@, k)], "none", NoContext, 0)

\* close() after its await, for the k-th suspended call: the native context
\* it awaited is closed; this.context = null; this.initialized = false.
AudioClosed(am, k) ==
  AudioResult([am EXCEPT !.states[am.closing[k]] = "closed",
                         !.context = NoContext,
                         !.initialized = FALSE,
                         !.closing = Without(@, k)], "none", NoContext, 0)

\* The subscriptions of the manager: `ln` is [listeners, attached, stale].
\* stale.unsubscribed holds the callbacks whose unsubscribe function was
\* called since they were last subscribed, stale.closed those that were
\* subscribed when a close() completed and have not been subscribed since.
NoStale == [unsubscribed |-> {}, closed |-> {}]
Callbacks == 1..MaxCallbacks
Listening == [listeners |-> listeners, attached |-> attached, stale |-> stale]

\* onStateChange(callback): this.listeners.add(callback)
OnStateChange(ln, cb) ==
  [ln EXCEPT !.listeners = @ \cup {cb},
             !.stale = [unsubscribed |-> @.unsubscribed \ {cb},
                        closed |-> @.closed \ {cb}]]

\* The function onStateChange(callback) returned:
\* this.listeners.delete(callback)
Unsubscribe(ln, cb) ==
  [ln EXCEPT !.listeners = @ \ {cb},
             !.stale.unsubscribed = @ \cup {cb}]

\* initialize() ended as r: the context it constructed, if any, got
\* addEventListener('statechange', this.handleStateChange).
ListenInitialize(ln, r) ==
  IF r.constructed = 1 THEN [ln EXCEPT !.attached = @ \cup {r.returned}] ELSE ln

\* close() on the manager am, up to its await:
\* this.context.removeEventListener('statechange', this.handleStateChange).
ListenClose(ln, am) ==
  IF am.context = NoContext THEN ln
  ELSE [ln EXCEPT !.attached = @ \ {am.context}]

\* close() after its await: the set of listeners is left as it is.
ListenClosed(ln) ==
  [ln EXCEPT !.stale.closed = @ \cup ln.listeners]

\* The native context c dispatches 'statechange': the callbacks
\* handleStateChange invokes.
HandleStateChange(ln, c) ==
  IF c \in ln.attached THEN ln.listeners ELSE {}

\* getContext()
AudioGetContext(am) ==
  IF am.context = NoContext THEN AudioResult(am, "NotInitialized", NoContext, 0)
  ELSE AudioResult(am, "none", am.context, 0)

\* get destination(): context.destination, which every native context has.
AudioDestination(am) ==
  IF am.context = NoContext THEN AudioResult(am, "NotInitialized", NoContext, 0)
  ELSE AudioResult(am, "none", am.context, 0)

\* isInitialized()
isInitialized(am) ==
  am.initialized /\ am.context # NoContext /\ am.states[am.context] # "closed"

\* The module-level singleton.  The world `w` is [managers,
\* globalAudioManager, contexts]: the manager objects constructed so far (each
\* [context, initialized, closing]), the value of the module variable, and the
\* states of the native contexts, which all managers share.
NewWorld == [managers |-> <<>>, globalAudioManager |-> NoManager, contexts |-> <<>>]

\* Manager i of the world, as the manager operations take it.
ManagerOf(w, i) ==
  [context |-> w.managers[i].context, initialized |-> w.managers[i].initialized,
   closing |-> w.managers[i].closing, states |-> w.contexts]

\* The world after a call on manager i left the manager `am`.
OnManager(w, i, am) ==
  [w EXCEPT !.managers[i] = [context |-> am.context,
                             initialized |-> am.initialized,
                             closing |-> am.closing],
            !.contexts = am.states]

\* getAudioManager()
getAudioManager(w) ==
  IF w.globalAudioManager = NoManager
    THEN [w EXCEPT !.managers =
                     Append(@, [context |-> NoContext, initialized |-> FALSE,
                                closing |-> <<>>]),
                   !.globalAudioManager = Len(w.managers) + 1]
  ELSE w

\* resetAudioManager(): close() is called and not awaited, so the call returns
\* with that close() suspended at its await.
resetAudioManager(w, settled) ==
  IF w.globalAudioManager # NoManager
    THEN [OnManager(w, w.globalAudioManager,
                    AudioClose(ManagerOf(w, w.globalAudioManager), settled).am)
            EXCEPT !.globalAudioManager = NoManager]
  ELSE w

\* -------------------------------------------------------- PatchManager layer

\* constructor: this.maxConnections = config.maxConnections || 1000
Constructor(cfg) ==
  IF cfg = NoConfig \/ cfg = 0 THEN DefaultMaxConnections ELSE cfg

\* Mutant of RegisterNode: no duplicate check, the new node replaces the old.
RegisterNode_Overwrite(st, o) ==
  Ok([st EXCEPT !.nodes[idOf(o)] = o])

\* registerNode(node)
RegisterNode(st, o) ==
  IF st.nodes[idOf(o)] # NoNode THEN Throw(st, "DuplicateNode")
  ELSE Ok([st EXCEPT !.nodes[idOf(o)] = o])

\* getConnection(connectionId): the ledger entry, or NoConn for undefined.
getConnection(conns, cid) ==
  IF \E i \in 1..Len(conns) : conns[i].id = cid
  THEN conns[CHOOSE i \in 1..Len(conns) : conns[i].id = cid]
  ELSE NoConn

\* getOutputConnections(nodeId), in ledger order.
getOutputConnections(conns, nodeId) ==
  SelectSeq(conns, LAMBDA c : c.sourceNodeId = nodeId)

\* getConnectionsForNode(nodeId), in ledger order.
getConnectionsForNode(conns, nodeId) ==
  SelectSeq(conns, LAMBDA c : c.sourceNodeId = nodeId \/ c.targetNodeId = nodeId)

\* Mutant of findConnectionToInput: the node id is compared with the
\* connection's source instead of its target.
findConnectionToInput_SourceSide(conns, nodeId, inputName) ==
  LET hits == SelectSeq(conns, LAMBDA c :
                 c.sourceNodeId = nodeId /\ c.targetInput = inputName)
  IN IF hits = <<>> THEN NoConn ELSE Head(hits)

\* findConnectionToInput(nodeId, inputName): the first match in ledger order.
findConnectionToInput(conns, nodeId, inputName) ==
  LET hits == SelectSeq(conns, LAMBDA c :
                 c.targetNodeId = nodeId /\ c.targetInput = inputName)
  IN IF hits = <<>> THEN NoConn ELSE Head(hits)

\* generateConnectionId(): "patch-" and up to twelve base-36 digits of
\* Math.random().  randomConnectionIds are the ids it can return: any of them,
\* whatever the ledger holds.  generateConnectionId(conns) are the ids it
\* returns in the runs where Math.random does not repeat the digits of a live
\* connection: those no live connection carries.
randomConnectionIds == ConnIds
generateConnectionId(conns) ==
  randomConnectionIds \ {conns[i].id : i \in 1..Len(conns)}

\* connections.set(connectionId, connection): the entry of that key is
\* replaced where it stands, and a new key goes last.
ConnectionsSet(conns, connection) ==
  IF \E i \in 1..Len(conns) : conns[i].id = connection.id
  THEN [i \in 1..Len(conns) |->
          IF conns[i].id = connection.id THEN connection ELSE conns[i]]
  ELSE Append(conns, connection)

\* The error connect() throws when the mechanical connect threw `e`.
ConnectionFailed(e) ==
  CASE e = "OutputNotFound" -> "ConnectionFailed:OutputNotFound"
    [] e = "InputNotFound" -> "ConnectionFailed:InputNotFound"
    [] OTHER -> "ConnectionFailed:NativeConnectFailed"

\* Mutant of Connect: the connection limit is checked before the target input.
Connect_LimitFirst(st, maxConns, sourceNodeId, sourceOutput, targetNodeId, targetInput, connectionId, nativeFails) ==
  LET sourceNode == st.nodes[sourceNodeId]
      targetNode == st.nodes[targetNodeId]
  IN IF sourceNode = NoNode THEN Throw(st, "SourceNodeNotFound")
     ELSE IF targetNode = NoNode THEN Throw(st, "TargetNodeNotFound")
     ELSE IF Len(st.connections) >= maxConns THEN Throw(st, "ConnectionLimit")
     ELSE IF findConnectionToInput(st.connections, targetNodeId, targetInput) # NoConn
       THEN Throw(st, "InputAlreadyConnected")
     ELSE LET m == NodeConnect(st, sourceNode, sourceOutput, targetNode,
                               targetInput, nativeFails)
              connection == [id |-> connectionId,
                             sourceNodeId |-> sourceNodeId,
                             sourceOutput |-> sourceOutput,
                             targetNodeId |-> targetNodeId,
                             targetInput |-> targetInput,
                             connected |-> TRUE]
          IN IF m.err # "none" THEN Throw(m.st, ConnectionFailed(m.err))
             ELSE Ok([m.st EXCEPT !.connections = ConnectionsSet(@, connection)])

\* connect(sourceNodeId, sourceOutput, targetNodeId, targetInput); connectionId
\* is the id generateConnectionId returned.
Connect(st, maxConns, sourceNodeId, sourceOutput, targetNodeId, targetInput, connectionId, nativeFails) ==
  LET sourceNode == st.nodes[sourceNodeId]
      targetNode == st.nodes[targetNodeId]
  IN IF sourceNode = NoNode THEN Throw(st, "SourceNodeNotFound")
     ELSE IF targetNode = NoNode THEN Throw(st, "TargetNodeNotFound")
     ELSE IF findConnectionToInput(st.connections, targetNodeId, targetInput) # NoConn
       THEN Throw(st, "InputAlreadyConnected")
     ELSE IF Len(st.connections) >= maxConns THEN Throw(st, "ConnectionLimit")
     ELSE LET m == NodeConnect(st, sourceNode, sourceOutput, targetNode,
                               targetInput, nativeFails)
              connection == [id |-> connectionId,
                             sourceNodeId |-> sourceNodeId,
                             sourceOutput |-> sourceOutput,
                             targetNodeId |-> targetNodeId,
                             targetInput |-> targetInput,
                             connected |-> TRUE]
          IN IF m.err # "none" THEN Throw(m.st, ConnectionFailed(m.err))
             ELSE Ok([m.st EXCEPT !.connections = ConnectionsSet(@, connection)])

\* Mutant of Disconnect: an id the ledger does not hold is ignored silently.
Disconnect_SilentUnknown(st, connectionId, nativeFails) ==
  LET connection == getConnection(st.connections, connectionId)
  IN IF connection = NoConn THEN Ok(st)
     ELSE LET sourceNode == st.nodes[connection.sourceNodeId]
              targetNode == st.nodes[connection.targetNodeId]
              m == IF sourceNode # NoNode /\ targetNode # NoNode
                      /\ connection.connected
                   THEN NodeDisconnect(st, sourceNode, connection.sourceOutput,
                                       targetNode, connection.targetInput,
                                       nativeFails)
                   ELSE Ok(st)
          IN Warned(Ok([m.st EXCEPT !.connections =
                          SelectSeq(@, LAMBDA c : c.id # connectionId)]),
                    IF m.err # "none" THEN 1 ELSE 0)

\* Mutant of Disconnect: no try/catch around the mechanical disconnect, whose
\* error leaves disconnect before the ledger entry is deleted.
Disconnect_Rethrow(st, connectionId, nativeFails) ==
  LET connection == getConnection(st.connections, connectionId)
  IN IF connection = NoConn THEN Throw(st, "ConnectionNotFound")
     ELSE LET sourceNode == st.nodes[connection.sourceNodeId]
              targetNode == st.nodes[connection.targetNodeId]
              m == IF sourceNode # NoNode /\ targetNode # NoNode
                      /\ connection.connected
                   THEN NodeDisconnect(st, sourceNode, connection.sourceOutput,
                                       targetNode, connection.targetInput,
                                       nativeFails)
                   ELSE Ok(st)
          IN IF m.err # "none" THEN m
             ELSE Ok([m.st EXCEPT !.connections =
                        SelectSeq(@, LAMBDA c : c.id # connectionId)])

\* disconnect(connectionId): a throwing mechanical disconnect is logged, and
\* the ledger entry is deleted all the same.
Disconnect(st, connectionId, nativeFails) ==
  LET connection == getConnection(st.connections, connectionId)
  IN IF connection = NoConn THEN Throw(st, "ConnectionNotFound")
     ELSE LET sourceNode == st.nodes[connection.sourceNodeId]
              targetNode == st.nodes[connection.targetNodeId]
              m == IF sourceNode # NoNode /\ targetNode # NoNode
                      /\ connection.connected
                   THEN NodeDisconnect(st, sourceNode, connection.sourceOutput,
                                       targetNode, connection.targetInput,
                                       nativeFails)
                   ELSE Ok(st)
          IN Warned(Ok([m.st EXCEPT !.connections =
                          SelectSeq(@, LAMBDA c : c.id # connectionId)]),
                    IF m.err # "none" THEN 1 ELSE 0)

\* connectionIds.forEach(id => { try { this.disconnect(id) } catch { warn } }):
\* the native disconnect of connection id throws iff id is in failSet.
RECURSIVE DisconnectEach(_, _, _)
DisconnectEach(st, ids, failSet) ==
  IF ids = <<>> THEN Ok(st)
  ELSE LET d == Disconnect(st, Head(ids), Head(ids) \in failSet)
       IN Warned(DisconnectEach(d.st, Tail(ids), failSet),
                 d.warned + IF d.err # "none" THEN 1 ELSE 0)

\* The ids of a sequence of connections, in order.
IdsOf(conns) == [i \in 1..Len(conns) |-> conns[i].id]

\* disconnectAllForNode(nodeId)
DisconnectAllForNode(st, nodeId, failSet) ==
  DisconnectEach(st, IdsOf(getConnectionsForNode(st.connections, nodeId)), failSet)

\* Mutant of UnregisterNode: the node is removed without the cascade.
UnregisterNode_NoCascade(st, nodeId, failSet) ==
  IF st.nodes[nodeId] = NoNode THEN Ok(st)
  ELSE Ok([st EXCEPT !.nodes[nodeId] = NoNode])

\* unregisterNode(nodeId)
UnregisterNode(st, nodeId, failSet) ==
  IF st.nodes[nodeId] = NoNode THEN Ok(st)
  ELSE LET d == DisconnectAllForNode(st, nodeId, failSet)
       IN IF d.err # "none" THEN d
          ELSE Warned(Ok([d.st EXCEPT !.nodes[nodeId] = NoNode]), d.warned)

\* Mutant of Clear: the connections are disconnected and the registry is kept.
Clear_LedgerOnly(st, failSet) ==
  DisconnectEach(st, IdsOf(st.connections), failSet)

\* clear()
Clear(st, failSet) ==
  LET d == DisconnectEach(st, IdsOf(st.connections), failSet)
  IN IF d.err # "none" THEN d
     ELSE Warned(Ok([d.st EXCEPT !.nodes = [id \in NodeIds |-> NoNode]]), d.warned)

\* getAllNodes(): the values of the nodes map, here by their keys.
getAllNodes(st) ==
  [id \in {k \in DOMAIN st.nodes : st.nodes[k] # NoNode} |-> st.nodes[id]]

\* getAllConnections(): the values of the connections map, in order.
getAllConnections(st) == st.connections

\* Mutant of getStats: nodeCount counts every id the registry has seen.
getStats_EveryId(st, maxConns) ==
  [nodeCount |-> Cardinality(DOMAIN st.nodes),
   connectionCount |-> Len(st.connections),
   maxConnections |-> maxConns]

\* getStats(): nodes.size, connections.size, maxConnections.
getStats(st, maxConns) ==
  [nodeCount |-> Cardinality({k \in DOMAIN st.nodes : st.nodes[k] # NoNode}),
   connectionCount |-> Len(st.connections),
   maxConnections |-> maxConns]

\* Mutant of hasPath: the visited test lets the first revisit through.
RECURSIVE hasPath_OneRevisit(_, _, _, _, _), hasPath(_, _, _, _, _), SomeHasPath(_, _, _, _, _)
hasPath_OneRevisit(conns, currentNodeId, targetNodeId, visited, expanded) ==
  IF currentNodeId = targetNodeId
  THEN [found |-> TRUE, visited |-> visited, expanded |-> expanded]
  ELSE IF currentNodeId \in visited /\ Len(expanded) > Cardinality(visited)
  THEN [found |-> FALSE, visited |-> visited, expanded |-> expanded]
  ELSE SomeHasPath(conns, getOutputConnections(conns, currentNodeId),
                   targetNodeId, visited \cup {currentNodeId},
                   Append(expanded, currentNodeId))

\* hasPath(currentNodeId, targetNodeId) of wouldCreateCycle, with the visited
\* set the closure shares threaded through: the result is whether the target
\* was found, the visited set afterwards, and the nodes whose outgoing
\* connections were fetched (line 239), in order.  SomeHasPath is
\* outConnections.some(...), left to right, stopping at the first hit.
hasPath(conns, currentNodeId, targetNodeId, visited, expanded) ==
  IF currentNodeId = targetNodeId
  THEN [found |-> TRUE, visited |-> visited, expanded |-> expanded]
  ELSE IF currentNodeId \in visited
  THEN [found |-> FALSE, visited |-> visited, expanded |-> expanded]
  ELSE SomeHasPath(conns, getOutputConnections(conns, currentNodeId),
                   targetNodeId, visited \cup {currentNodeId},
                   Append(expanded, currentNodeId))

SomeHasPath(conns, outConnections, targetNodeId, visited, expanded) ==
  IF outConnections = <<>>
  THEN [found |-> FALSE, visited |-> visited, expanded |-> expanded]
  ELSE LET r == hasPath(conns, Head(outConnections).targetNodeId,
                        targetNodeId, visited, expanded)
       IN IF r.found THEN r
          ELSE SomeHasPath(conns, Tail(outConnections), targetNodeId,
                           r.visited, r.expanded)

\* Mutant of wouldCreateCycle: the search runs from the source to the target.
wouldCreateCycle_Reversed(conns, fromNodeId, toNodeId) ==
  hasPath(conns, fromNodeId, toNodeId, {}, <<>>).found

\* wouldCreateCycle(fromNodeId, toNodeId)
wouldCreateCycle(conns, fromNodeId, toNodeId) ==
  hasPath(conns, toNodeId, fromNodeId, {}, <<>>).found

\* Mutant of CanConnect: the named ports are not looked up.
CanConnect_TrustPorts(st, maxConns, sourceNodeId, sourceOutput, targetNodeId, targetInput) ==
  LET sourceNode == st.nodes[sourceNodeId]
      targetNode == st.nodes[targetNodeId]
  IN IF sourceNode = NoNode THEN "SourceNodeNotFound"
     ELSE IF targetNode = NoNode THEN "TargetNodeNotFound"
     ELSE IF findConnectionToInput(st.connections, targetNodeId, targetInput) # NoConn
       THEN "InputAlreadyConnected"
     ELSE IF Len(st.connections) >= maxConns THEN "ConnectionLimit"
     ELSE IF wouldCreateCycle(st.connections, sourceNodeId, targetNodeId)
       THEN "FeedbackLoop"
     ELSE "ok"

\* canConnect(...): "ok" for {canConnect: true}, else the reason.
CanConnect(st, maxConns, sourceNodeId, sourceOutput, targetNodeId, targetInput) ==
  LET sourceNode == st.nodes[sourceNodeId]
      targetNode == st.nodes[targetNodeId]
  IN IF sourceNode = NoNode THEN "SourceNodeNotFound"
     ELSE IF targetNode = NoNode THEN "TargetNodeNotFound"
     ELSE IF sourceOutput \notin DOMAIN st.outputs[sourceNode] THEN "OutputNotFound"
     ELSE IF targetInput \notin DOMAIN st.inputs[targetNode] THEN "InputNotFound"
     ELSE IF findConnectionToInput(st.connections, targetNodeId, targetInput) # NoConn
       THEN "InputAlreadyConnected"
     ELSE IF Len(st.connections) >= maxConns THEN "ConnectionLimit"
     ELSE IF wouldCreateCycle(st.connections, sourceNodeId, targetNodeId)
       THEN "FeedbackLoop"
     ELSE "ok"

\* ----------------------------------------------------------- BaseModule layer

\* new SomeNode(config): the EurorackAudioNode constructor runs initialize().
NodeConstruct(st, o) ==
  Ok([st EXCEPT !.objState[o] = "live",
                !.inputs[o] = InitialInputs(o),
                !.outputs[o] = InitialOutputs(o),
                !.parameters[o] = InitialParameters(o)])

\* The `this.config` a gain node reads when none has been assigned.
NoGainConfig == [assigned |-> FALSE]

\* EurorackGainNode.initialize() when this.config reads thisConfig:
\* `this.config?.minGain ?? 0`, `?.maxGain ?? 2`, `?.initialGain ?? 1`.
GainInitialize(st, o, thisConfig) ==
  LET minGain == IF thisConfig = NoGainConfig THEN 0 ELSE thisConfig.minGain
      maxGain == IF thisConfig = NoGainConfig THEN 2 ELSE thisConfig.maxGain
      initialGain == IF thisConfig = NoGainConfig THEN 1 ELSE thisConfig.initialGain
  IN Ok([st EXCEPT !.objState[o] = "live",
                   !.inputs[o] = InitialInputs(o),
                   !.outputs[o] = InitialOutputs(o),
                   !.parameters[o] =
                     [gain |-> AudioParameter(initialGain, minGain, maxGain)]])

\* new EurorackGainNode(cfg): super(baseConfig) runs initialize() in the
\* EurorackAudioNode constructor, and `this.config = config` follows it, so
\* initialize() reads a this.config that has not been assigned.
NewGainNode(st, o, cfg) == GainInitialize(st, o, NoGainConfig)

\* getGain(): `param?.value ?? 1`
getGain(st, o) ==
  IF "gain" \in DOMAIN st.parameters[o] THEN st.parameters[o]["gain"].value ELSE 1

\* new SomeModule(config): the BaseModule constructor ends with
\* getPatchManager().registerNode(this); when that throws, the constructor
\* throws and the caller never holds the object.
ModuleConstruct(st, o) ==
  LET r == RegisterNode(NodeConstruct(st, o).st, o)
  IN IF r.err # "none" THEN Throw(st, r.err) ELSE r

\* applyConfig() of a module whose config enables `options`: the inputs and
\* parameters of every enabled option are created.
ApplyConfig(st, o, options) ==
  LET table == OptionTable[NodeTable[o].kind]
      newInputs == UNION {table[x].inputs : x \in options}
      newParameters == UNION {DOMAIN table[x].parameters : x \in options}
      parameterOf(n) ==
        table[CHOOSE x \in options : n \in DOMAIN table[x].parameters].parameters[n]
  IN Ok([st EXCEPT
           !.inputs[o] = [n \in newInputs |-> FALSE] @@ @,
           !.parameters[o] = [n \in newParameters |-> parameterOf(n)] @@ @,
           !.objState[o] = "live"])

\* getInputNames(), getOutputNames(), getParameterNames()
Names(st, o) ==
  [inputs |-> DOMAIN st.inputs[o], outputs |-> DOMAIN st.outputs[o],
   parameters |-> DOMAIN st.parameters[o]]

\* Mutant of ModuleDispose: the module is disposed without being unregistered.
ModuleDispose_NoUnregister(st, o, failSet, fails) ==
  NodeDispose(st, o, fails)

\* BaseModule.dispose(): unregisterNode(this.id), then super.dispose().
ModuleDispose(st, o, failSet, fails) ==
  LET u == UnregisterNode(st, idOf(o), failSet)
  IN IF u.err # "none" THEN u ELSE Warned(NodeDispose(u.st, o, fails), u.warned)

\* dispose() of any object: a module's override, or the node's own.
Dispose(st, o, failSet, fails) ==
  IF IsModule(o) THEN ModuleDispose(st, o, failSet, fails)
  ELSE NodeDispose(st, o, fails)

\* The fields an OscillatorModule adds: `osc` is [currentWaveform, isRunning,
\* started], the last being the native OscillatorNode's own flag: a native
\* node can be started once, and stopped only when it was started.
Waveforms == {"sine", "square", "sawtooth", "triangle"}
NewOscillator == [currentWaveform |-> "sine", isRunning |-> FALSE, started |-> FALSE]

\* OscillatorModule.onStart(): the native start() of a node that was started
\* before throws on the platform and returns in the test double
\* (restartThrows); the throw is caught and logged.
OscillatorOnStart(osc, restartThrows) ==
  IF osc.isRunning THEN osc
  ELSE IF osc.started /\ restartThrows THEN osc
  ELSE [osc EXCEPT !.isRunning = TRUE, !.started = TRUE]

\* OscillatorModule.onStop()
OscillatorOnStop(osc) ==
  IF osc.isRunning /\ osc.started THEN [osc EXCEPT !.isRunning = FALSE] ELSE osc

\* How a module operation ends: the state, the module's fields and the error.
ModuleResult(st, osc, err) == [st |-> st, osc |-> osc, err |-> err]

\* Mutant of SetWaveform: the output port is created anew for the new node.
SetWaveform_NewPort(st, osc, o, waveform) ==
  IF osc.currentWaveform = waveform THEN ModuleResult(st, osc, "none")
  ELSE IF osc.isRunning /\ ~osc.started THEN ModuleResult(st, osc, "InvalidState")
  ELSE ModuleResult([st EXCEPT !.native = {l \in @ : l[1] # o},
                               !.outputs[o] = [n \in DOMAIN @ |-> {}]],
                    [currentWaveform |-> waveform, isRunning |-> osc.isRunning,
                     started |-> osc.isRunning],
                    "none")

\* OscillatorModule.setWaveform(waveform): the running node is stopped, the
\* old node's disconnect() removes every native link that leaves it, a new
\* node is created, reconnectOutput stores it in the 'output' port object
\* (output.node = newNode) and makes no native connect, and the new node is
\* started when the old one was running.
SetWaveform(st, osc, o, waveform) ==
  IF osc.currentWaveform = waveform THEN ModuleResult(st, osc, "none")
  ELSE IF osc.isRunning /\ ~osc.started THEN ModuleResult(st, osc, "InvalidState")
  ELSE ModuleResult([st EXCEPT !.native = {l \in @ : l[1] # o}],
                    [currentWaveform |-> waveform, isRunning |-> osc.isRunning,
                     started |-> osc.isRunning],
                    "none")

\* getCurrentWaveform()
getCurrentWaveform(osc) == osc.currentWaveform

\* BaseModule.position, of which x and y are kept: the constructor's default.
DefaultPosition == [x |-> 0, y |-> 0]

\* setPosition(position): { ...this.position, ...position }
SetPosition(pos, partial) ==
  [k \in DOMAIN pos |-> IF k \in DOMAIN partial THEN partial[k] ELSE pos[k]]

\* No data object.
NoData == [id |-> ""]

\* The life-cycle flags of a module whose isActive is `flag`, no hook invoked.
Flags(flag) == [isActive |-> flag, hooks |-> <<>>]

\* OscillatorModule.serialize(): BaseModule.serialize() (id, type, position,
\* the value of every parameter by name, isActive) and waveform, isRunning.
Serialize(st, o, osc, pos, flag) ==
  [id |-> idOf(o),
   type |-> NodeTable[o].kind,
   position |-> pos,
   parameters |-> [n \in DOMAIN st.parameters[o] |-> st.parameters[o][n].value],
   isActive |-> flag,
   waveform |-> osc.currentWaveform,
   isRunning |-> osc.isRunning]

\* Whether a number is truthy: neither 0 nor NaN.
Truthy(value) == value # 0 /\ value # NaN

\* How a deserialize ends: the state, the new module's fields, position and
\* life-cycle flags, and the error thrown.
Deserialized(st, osc, pos, ls, err) ==
  [st |-> st, osc |-> osc, pos |-> pos, ls |-> ls, err |-> err]

\* new OscillatorModule(config) for object o, `options` being the enabled
\* options and initialFrequency, initialWaveform the values of the config
\* (NaN and "" when absent): the BaseModule constructor registers the module,
\* applyConfig() then sets the frequency when initialFrequency is truthy,
\* sets the waveform and creates the ports and parameters of the options.
NewOscillatorModule(st, o, options, initialFrequency, initialWaveform) ==
  LET c == ModuleConstruct(st, o)
  IN IF c.err # "none" THEN ModuleResult(st, NewOscillator, c.err)
     ELSE LET f == IF Truthy(initialFrequency)
                   THEN SetParameter(c.st, o, "frequency", initialFrequency).st
                   ELSE c.st
              w == IF initialWaveform # ""
                   THEN SetWaveform(f, NewOscillator, o, initialWaveform)
                   ELSE ModuleResult(f, NewOscillator, "none")
          IN ModuleResult(ApplyConfig(w.st, o, options).st, w.osc, w.err)

\* module.setParameter(name, value) for every entry of `values` that names a
\* parameter of the map `ps`.
Replayed(ps, values) ==
  [n \in DOMAIN ps |->
     IF n \in DOMAIN values
     THEN [ps[n] EXCEPT !.value = ClampedValue(ps[n], values[n])]
     ELSE ps[n]]

\* OscillatorModule.deserialize(data), the module it constructs being object
\* o: the config carries data.id, data.parameters.frequency, data.waveform
\* and data.enableFM, data.enableSync (which serialize() never writes); then
\* setPosition(data.position), setParameter for every entry of
\* data.parameters (all are numbers; the entries the constructor created come
\* first in the map), setWaveform(data.waveform), and activate() when
\* data.isActive.
Deserialize(st, data, o) ==
  LET initialFrequency == IF "frequency" \in DOMAIN data.parameters
                          THEN data.parameters["frequency"] ELSE NaN
      c == NewOscillatorModule(st, o, {}, initialFrequency, data.waveform)
      known == DOMAIN c.st.parameters[o]
      replayed == [c.st EXCEPT !.parameters[o] = Replayed(@, data.parameters)]
      w == SetWaveform(replayed, c.osc, o, data.waveform)
      ls == IF data.isActive THEN Activate(Flags(FALSE)) ELSE Flags(FALSE)
  IN IF c.err # "none"
       THEN Deserialized(st, NewOscillator, DefaultPosition, Flags(FALSE), c.err)
     ELSE IF DOMAIN data.parameters \ known # {}
       THEN Deserialized(replayed, c.osc,
                         SetPosition(DefaultPosition, data.position),
                         Flags(FALSE), "ParameterNotFound")
     ELSE Deserialized(w.st, w.osc, SetPosition(DefaultPosition, data.position),
                       ls, w.err)

\* The UI of a module: `lists` is [knobs, leds], each a sequence of
\* references to declaration objects, and `heap` maps each reference to its
\* object: a knob is [id, parameterName], an LED [id, linkedParameter].  The
\* constructor's empty UI:
NoUI == [knobs |-> <<>>, leds |-> <<>>]

\* OscillatorModule.defineUI() with the default options: addKnob twice and
\* addLED once, the LED declaring no linkedParameter.
OscillatorDeclarations ==
  << [id |-> "freq-knob", parameterName |-> "frequency"],
     [id |-> "detune-knob", parameterName |-> "detune"],
     [id |-> "activity-led", linkedParameter |-> ""] >>
OscillatorUI == [knobs |-> <<1, 2>>, leds |-> <<3>>]

\* getUI(): { knobs: [...this.ui.knobs], leds: [...this.ui.leds], ... }: new
\* arrays that hold the same declaration objects.
getUI(lists) == [knobs |-> lists.knobs, leds |-> lists.leds]

\* array.find(d => d[field] === name), as the id of the declaration found,
\* "" when there is none.
Find(list, heap, field, name) ==
  LET hits == {i \in 1..Len(list) :
                 field \in DOMAIN heap[list[i]] /\ heap[list[i]][field] = name}
  IN IF hits = {} THEN ""
     ELSE heap[list[CHOOSE i \in hits : \A j \in hits : i <= j]].id

\* BaseModule.setParameter(name, value): the knob onKnobChange is called for
\* and the LED updateLEDFromParameter is called for.
Dispatch(lists, heap, name) ==
  [knob |-> Find(lists.knobs, heap, "parameterName", name),
   led |-> Find(lists.leds, heap, "linkedParameter", name)]

\* An argument the caller omits.
Undefined == NaN - 1

\* LED intensities are counted in tenths: 1.0 is
FullIntensity == 10

\* `intensity || 1.0`
OrFull(intensity) ==
  IF intensity = Undefined \/ ~Truthy(intensity) THEN FullIntensity ELSE intensity

\* BaseModule.setLEDState(ledId, isOn, intensity): the hook calls it makes.
SetLEDState(lists, heap, ledId, isOn, intensity) ==
  IF Find(lists.leds, heap, "id", ledId) = "" THEN <<>>
  ELSE << [hook |-> "onLEDStateChange", id |-> ledId, isOn |-> isOn,
           intensity |-> OrFull(intensity)] >>

\* BaseModule.setParameter(name, value) after super.setParameter(name, value)
\* has returned: the hook calls it makes, onKnobChange(knob.id, value) for the
\* knob bound to the parameter and updateLEDFromParameter(led.id, name,
\* value) for the LED linked to it.
SetParameterHooks(lists, heap, name, value) ==
  LET to == Dispatch(lists, heap, name)
  IN (IF to.knob = "" THEN <<>>
      ELSE << [hook |-> "onKnobChange", id |-> to.knob, value |-> value] >>)
     \o (IF to.led = "" THEN <<>>
         ELSE << [hook |-> "updateLEDFromParameter", id |-> to.led,
                  value |-> value] >>)

\* ------------------------------------------------------------ state machine

Init ==
  /\ \E cfg \in Configs : maxConnections = Constructor(cfg)
  /\ nodes = [id \in NodeIds |-> NoNode]
  /\ connections = <<>>
  /\ objState = [o \in Obj |-> "none"]
  /\ inputs = [o \in Obj |-> NoPorts]
  /\ outputs = [o \in Obj |-> [n \in {} |-> {}]]
  /\ native = {}
  /\ parameters = [o \in Obj |-> NoPorts]
  /\ isActive = [o \in Obj |-> FALSE]
  /\ hooks = <<>>
  /\ config = [o \in Obj |-> {}]
  /\ registeredNames = [o \in Obj |-> NoNames]
  /\ audio = NewAudioContextManager
  /\ managers = NewWorld.managers
  /\ globalAudioManager = NewWorld.globalAudioManager
  /\ contexts = NewWorld.contexts
  /\ oscillator = [o \in Obj |-> NewOscillator]
  /\ position = [o \in Obj |-> DefaultPosition]
  /\ serialized = NoData
  /\ ui = NoUI
  /\ declarations = <<>>
  /\ callerUI = NoUI
  /\ lastHook = [o \in Obj |-> ""]
  /\ levelMonitoringId = NoHandle
  /\ frames = {}
  /\ handles = 0
  /\ listeners = {}
  /\ attached = {}
  /\ stale = NoStale
  /\ last = [op |-> "new PatchManager", args |-> <<>>, err |-> "none",
             removed |-> 0, warned |-> 0]

\* The operation `op` called with `args` ended as `r`: its state is the next
\* state, and `last` records the call, the error it threw, how many ledger
\* entries it removed and how many warnings it logged.
Becomes(op, args, r) ==
  /\ nodes' = r.st.nodes
  /\ connections' = r.st.connections
  /\ objState' = r.st.objState
  /\ inputs' = r.st.inputs
  /\ outputs' = r.st.outputs
  /\ native' = r.st.native
  /\ parameters' = r.st.parameters
  /\ last' = [op |-> op, args |-> args, err |-> r.err, warned |-> r.warned,
              removed |-> IF Len(r.st.connections) < Len(connections)
                          THEN Len(connections) - Len(r.st.connections) ELSE 0]
  /\ UNCHANGED <<maxConnections, isActive, hooks, config, registeredNames, audio,
                 globalVars, moduleVars, uiVars, historyVars, meterVars,
                 listenerVars>>

DisposeFailures == {"none", "disconnect", "onDispose"}

\* The ids of the ledger's connections that touch nodeId: the connections
\* whose native disconnect a cascade for nodeId can invoke.
TouchingIds(nodeId) ==
  LET touching == getConnectionsForNode(connections, nodeId)
  IN {touching[i].id : i \in 1..Len(touching)}
LiveIds == {connections[i].id : i \in 1..Len(connections)}

DoConstruct(o) ==
  /\ objState[o] = "none"
  /\ Becomes("construct", <<>>,
             IF IsModule(o) THEN ModuleConstruct(State, o)
             ELSE NodeConstruct(State, o))

DoRegisterNode(o) ==
  /\ objState[o] = "live"
  /\ Becomes("registerNode", <<>>, RegisterNode(State, o))

DoUnregisterNode(nodeId, failSet) ==
  Becomes("unregisterNode", <<>>, UnregisterNode(State, nodeId, failSet))

DoConnect(sourceNodeId, sourceOutput, targetNodeId, targetInput, nativeFails) ==
  \E connectionId \in ConnIds :
    LET r == Connect(State, maxConnections, sourceNodeId, sourceOutput,
                     targetNodeId, targetInput, connectionId, nativeFails)
    IN /\ r.err = "none" => connectionId \in generateConnectionId(connections)
       /\ Becomes("connect", <<sourceNodeId, targetNodeId>>, r)

DoDisconnect(connectionId, nativeFails) ==
  Becomes("disconnect", <<>>, Disconnect(State, connectionId, nativeFails))

DoDisconnectAllForNode(nodeId, failSet) ==
  Becomes("disconnectAllForNode", <<>>, DisconnectAllForNode(State, nodeId, failSet))

DoClear(failSet) ==
  Becomes("clear", <<>>, Clear(State, failSet))

\* Mutant of DoCanConnect: the check marks the target input it examined.
DoCanConnect_Marking(sourceNodeId, sourceOutput, targetNodeId, targetInput) ==
  Becomes("canConnect", <<sourceNodeId, targetNodeId>>,
          Throw([State EXCEPT !.inputs =
                   SetConnected(@, {<<nodes[targetNodeId], targetInput>>}, TRUE)],
                CanConnect(State, maxConnections, sourceNodeId,
                           sourceOutput, targetNodeId, targetInput)))

DoCanConnect(sourceNodeId, sourceOutput, targetNodeId, targetInput) ==
  Becomes("canConnect", <<sourceNodeId, targetNodeId>>,
          Throw(State, CanConnect(State, maxConnections, sourceNodeId,
                                  sourceOutput, targetNodeId, targetInput)))

DoDispose(o, failSet, fails) ==
  /\ objState[o] # "none"
  /\ Becomes("dispose", <<>>, Dispose(State, o, failSet, fails))

\* Every operation, on the objects 1..3 and their ids.
Next ==
  \/ \E o \in LifeObj : DoConstruct(o)
  \/ \E o \in LifeObj : DoRegisterNode(o)
  \/ \E nodeId \in LifeIds : \E failSet \in SUBSET TouchingIds(nodeId) :
       DoUnregisterNode(nodeId, failSet)
  \/ \E s \in LifeIds, so \in OutputNames, t \in LifeIds, ti \in InputNames,
        nativeFails \in BOOLEAN : DoConnect(s, so, t, ti, nativeFails)
  \/ \E connectionId \in ConnIds, nativeFails \in BOOLEAN :
       DoDisconnect(connectionId, nativeFails)
  \/ \E nodeId \in LifeIds : \E failSet \in SUBSET TouchingIds(nodeId) :
       DoDisconnectAllForNode(nodeId, failSet)
  \/ \E failSet \in SUBSET LiveIds : DoClear(failSet)
  \/ \E s \in LifeIds, so \in OutputNames, t \in LifeIds, ti \in InputNames :
       DoCanConnect(s, so, t, ti)
  \/ \E o \in LifeObj, fails \in DisposeFailures :
       \E failSet \in SUBSET (IF IsModule(o) THEN TouchingIds(idOf(o)) ELSE {}) :
         DoDispose(o, failSet, fails)

Spec == Init /\ [][Next]_vars

\* The patch graph on its own: the three processing nodes 4..6 are constructed
\* and registered, and the manager connects, disconnects and pre-checks
\* connections among them.  A native connect may throw; native disconnects
\* do not.
InitGraph ==
  /\ \E cfg \in Configs : maxConnections = Constructor(cfg)
  /\ nodes = [id \in NodeIds |->
                IF id \in GraphIds THEN CHOOSE o \in GraphObj : idOf(o) = id
                ELSE NoNode]
  /\ connections = <<>>
  /\ objState = [o \in Obj |-> IF o \in GraphObj THEN "live" ELSE "none"]
  /\ inputs = [o \in Obj |-> IF o \in GraphObj THEN InitialInputs(o) ELSE NoPorts]
  /\ outputs = [o \in Obj |->
                  IF o \in GraphObj THEN InitialOutputs(o) ELSE [n \in {} |-> {}]]
  /\ native = {}
  /\ parameters = [o \in Obj |->
                     IF o \in GraphObj THEN InitialParameters(o) ELSE NoPorts]
  /\ isActive = [o \in Obj |-> FALSE]
  /\ hooks = <<>>
  /\ config = [o \in Obj |-> {}]
  /\ registeredNames = [o \in Obj |-> NoNames]
  /\ audio = NewAudioContextManager
  /\ managers = NewWorld.managers
  /\ globalAudioManager = NewWorld.globalAudioManager
  /\ contexts = NewWorld.contexts
  /\ oscillator = [o \in Obj |-> NewOscillator]
  /\ position = [o \in Obj |-> DefaultPosition]
  /\ serialized = NoData
  /\ ui = NoUI
  /\ declarations = <<>>
  /\ callerUI = NoUI
  /\ lastHook = [o \in Obj |-> ""]
  /\ levelMonitoringId = NoHandle
  /\ frames = {}
  /\ handles = 0
  /\ listeners = {}
  /\ attached = {}
  /\ stale = NoStale
  /\ last = [op |-> "registerNode", args |-> <<>>, err |-> "none",
             removed |-> 0, warned |-> 0]

NextGraph ==
  \/ \E s \in GraphIds, so \in OutputNames, t \in GraphIds, ti \in InputNames,
        nativeFails \in BOOLEAN : DoConnect(s, so, t, ti, nativeFails)
  \/ \E connectionId \in ConnIds : DoDisconnect(connectionId, FALSE)
  \/ \E s \in GraphIds, so \in OutputNames, t \in GraphIds, ti \in InputNames :
       DoCanConnect(s, so, t, ti)

SpecGraph == InitGraph /\ [][NextGraph]_vars

\* The cycle search on its own: the nodes 4..6 are constructed with every
\* option of their kind enabled, so that the filter and the VCA own control
\* inputs besides 'input', and registered; the manager connects, disconnects
\* and pre-checks connections into any of these inputs.
ConfiguredInputs(o) ==
  ApplyConfig([parameters |-> [x \in {o} |-> InitialParameters(o)],
               inputs |-> [x \in {o} |-> InitialInputs(o)],
               objState |-> [x \in {o} |-> "live"]], o, Options(o)).st.inputs[o]
ConfiguredParameters(o) ==
  ApplyConfig([parameters |-> [x \in {o} |-> InitialParameters(o)],
               inputs |-> [x \in {o} |-> InitialInputs(o)],
               objState |-> [x \in {o} |-> "live"]], o, Options(o)).st.parameters[o]
SearchInputNames == {"input", "cutoffCV", "cv"}

InitSearch ==
  /\ \E cfg \in Configs : maxConnections = Constructor(cfg)
  /\ nodes = [id \in NodeIds |->
                IF id \in GraphIds THEN CHOOSE o \in GraphObj : idOf(o) = id
                ELSE NoNode]
  /\ connections = <<>>
  /\ objState = [o \in Obj |-> IF o \in GraphObj THEN "live" ELSE "none"]
  /\ inputs = [o \in Obj |-> IF o \in GraphObj THEN ConfiguredInputs(o) ELSE NoPorts]
  /\ outputs = [o \in Obj |->
                  IF o \in GraphObj THEN InitialOutputs(o) ELSE [n \in {} |-> {}]]
  /\ native = {}
  /\ parameters = [o \in Obj |->
                     IF o \in GraphObj THEN ConfiguredParameters(o) ELSE NoPorts]
  /\ isActive = [o \in Obj |-> FALSE]
  /\ hooks = <<>>
  /\ config = [o \in Obj |-> IF o \in GraphObj THEN Options(o) ELSE {}]
  /\ registeredNames = [o \in Obj |-> NoNames]
  /\ audio = NewAudioContextManager
  /\ managers = NewWorld.managers
  /\ globalAudioManager = NewWorld.globalAudioManager
  /\ contexts = NewWorld.contexts
  /\ oscillator = [o \in Obj |-> NewOscillator]
  /\ position = [o \in Obj |-> DefaultPosition]
  /\ serialized = NoData
  /\ ui = NoUI
  /\ declarations = <<>>
  /\ callerUI = NoUI
  /\ lastHook = [o \in Obj |-> ""]
  /\ levelMonitoringId = NoHandle
  /\ frames = {}
  /\ handles = 0
  /\ listeners = {}
  /\ attached = {}
  /\ stale = NoStale
  /\ last = [op |-> "registerNode", args |-> <<>>, err |-> "none",
             removed |-> 0, warned |-> 0]

NextSearch ==
  \/ \E s \in GraphIds, t \in GraphIds, ti \in SearchInputNames :
       DoConnect(s, "output", t, ti, FALSE)
  \/ \E connectionId \in ConnIds : DoDisconnect(connectionId, FALSE)
  \/ \E s \in GraphIds, t \in GraphIds, ti \in SearchInputNames :
       DoCanConnect(s, "output", t, ti)

SpecSearch == InitSearch /\ [][NextSearch]_vars

\* The parameters on their own: the nodes 4..6 are constructed, and their
\* parameters are written through setParameter and the gain node's operations.
ParameterNames == UNION {DOMAIN ParameterTable[k] : k \in DOMAIN ParameterTable}
ParameterBounds ==
  UNION {UNION {{ParameterTable[k][n].minValue, ParameterTable[k][n].maxValue} :
                  n \in DOMAIN ParameterTable[k]} : k \in DOMAIN ParameterTable}
ParameterInputs ==
  {NaN} \cup ((0 - 1)..MaxInput) \cup {b + d : b \in ParameterBounds, d \in {0 - 1, 0, 1}}
GainObj == {o \in GraphObj : NodeTable[o].kind = "EurorackGainNode"}

DoSetParameter(o, name, value) ==
  Becomes("setParameter", <<o, name>>, SetParameter(State, o, name, value))

DoSetGain(o, value) ==
  Becomes("setGain", <<o, "gain">>, SetGain(State, o, value))

DoSetGainAtTime(o, value) ==
  Becomes("setGainAtTime", <<o, "gain">>, SetGainAtTime(State, o, value))

DoLinearRampToGain(o, value) ==
  Becomes("linearRampToGain", <<o, "gain">>, LinearRampToGain(State, o, value))

DoExponentialRampToGain(o, value) ==
  Becomes("exponentialRampToGain", <<o, "gain">>,
          ExponentialRampToGain(State, o, value))

NextParameters ==
  \/ \E o \in GraphObj, name \in ParameterNames, value \in ParameterInputs :
       DoSetParameter(o, name, value)
  \/ \E o \in GainObj, value \in ParameterInputs : DoSetGain(o, value)
  \/ \E o \in GainObj, value \in ParameterInputs : DoSetGainAtTime(o, value)
  \/ \E o \in GainObj, value \in ParameterInputs : DoLinearRampToGain(o, value)
  \/ \E o \in GainObj, value \in ParameterInputs : DoExponentialRampToGain(o, value)

SpecParameters == InitGraph /\ [][NextParameters]_vars

\* The life cycle on its own: the nodes 4..6 are constructed, and are
\* started, stopped, activated and deactivated.
Calling(o) == [isActive |-> isActive[o], hooks |-> <<>>]

\* The life-cycle operation `op` called on object o ended as r; last.args
\* holds o and the value isActive had when the call was made.
Lifecycle(op, o, r) ==
  /\ isActive' = [isActive EXCEPT ![o] = r.isActive]
  /\ hooks' = r.hooks
  /\ lastHook' = [lastHook EXCEPT ![o] = LastStartStop(@, r.hooks)]
  /\ last' = [op |-> op, args |-> <<o, isActive[o]>>, err |-> "none",
              warned |-> 0, removed |-> 0]
  /\ UNCHANGED <<maxConnections, nodes, connections, objState, inputs,
                 outputs, native, parameters, config, registeredNames, audio,
                 globalVars, moduleVars, uiVars, meterVars,
                 listenerVars>>

DoStart(o) == Lifecycle("start", o, Start(Calling(o)))
DoStop(o) == Lifecycle("stop", o, Stop(Calling(o)))
DoActivate(o) == IsModule(o) /\ Lifecycle("activate", o, Activate(Calling(o)))
DoDeactivate(o) == IsModule(o) /\ Lifecycle("deactivate", o, Deactivate(Calling(o)))

NextLifecycle ==
  \/ \E o \in GraphObj : DoStart(o)
  \/ \E o \in GraphObj : DoStop(o)
  \/ \E o \in GraphObj : DoActivate(o)
  \/ \E o \in GraphObj : DoDeactivate(o)

SpecLifecycle == InitGraph /\ [][NextLifecycle]_vars

\* The construction of a module in its steps: super(moduleConfig) runs
\* initialize() in the EurorackAudioNode constructor and registerNode(this) at
\* the end of the BaseModule constructor; the module's own constructor then
\* stores its config and runs applyConfig().  An object is "initialized" after
\* the first step, "registered" after the second, "live" when the constructor
\* has returned.  The modules 3..5 are constructed with every combination of
\* their options, have a parameter set, and are disposed.
TopologyObj == {o \in 3..5 : IsModule(o)}

\* The state `st` is the next state and `last` records the call.
StepTo(op, o, st) ==
  /\ nodes' = st.nodes
  /\ connections' = st.connections
  /\ objState' = st.objState
  /\ inputs' = st.inputs
  /\ outputs' = st.outputs
  /\ native' = st.native
  /\ parameters' = st.parameters
  /\ last' = [op |-> op, args |-> <<o>>, err |-> "none", warned |-> 0,
              removed |-> 0]
  /\ UNCHANGED <<maxConnections, isActive, hooks, audio, globalVars, moduleVars,
                 uiVars, historyVars, meterVars,
                 listenerVars>>

DoInitialize(o, options) ==
  /\ objState[o] = "none"
  /\ StepTo("initialize", o,
            [NodeConstruct(State, o).st EXCEPT !.objState[o] = "initialized"])
  /\ config' = [config EXCEPT ![o] = options]
  /\ UNCHANGED registeredNames

DoRegisterSelf(o) ==
  /\ objState[o] = "initialized"
  /\ LET r == RegisterNode(State, o)
     IN /\ r.err = "none"
        /\ StepTo("registerNode", o, [r.st EXCEPT !.objState[o] = "registered"])
        /\ registeredNames' = [registeredNames EXCEPT ![o] = Names(r.st, o)]
  /\ UNCHANGED config

DoApplyConfig(o) ==
  /\ objState[o] = "registered"
  /\ StepTo("applyConfig", o, ApplyConfig(State, o, config[o]).st)
  /\ UNCHANGED <<config, registeredNames>>

NextTopology ==
  \/ \E o \in TopologyObj : \E options \in SUBSET Options(o) :
       DoInitialize(o, options)
  \/ \E o \in TopologyObj : DoRegisterSelf(o)
  \/ \E o \in TopologyObj : DoApplyConfig(o)
  \/ \E o \in TopologyObj, name \in ParameterNames :
       objState[o] = "live" /\ DoSetParameter(o, name, MaxInput)
  \/ \E o \in TopologyObj : objState[o] = "live" /\ DoDispose(o, {}, "none")

SpecTopology == Init /\ [][NextTopology]_vars

\* The audio environment on its own.  last.args holds the context the call
\* returned and the number of native contexts it constructed.
AudioBecomes(op, r) ==
  /\ audio' = r.am
  /\ last' = [op |-> op, args |-> <<r.returned, r.constructed>>, err |-> r.err,
              warned |-> 0, removed |-> 0]
  /\ UNCHANGED <<maxConnections, nodes, connections, objState, inputs,
                 outputs, native, parameters, isActive, hooks, config,
                 registeredNames, globalVars, moduleVars, uiVars,
                 historyVars, meterVars,
                 listenerVars>>

DoAudioInitialize(nativeFails, state) ==
  LET r == AudioInitialize(audio, nativeFails, state)
  IN /\ Len(r.am.states) <= MaxContexts
     /\ AudioBecomes("initialize", r)

DoAudioResume == AudioBecomes("resume", AudioResume(audio))
DoAudioSuspend == AudioBecomes("suspend", AudioSuspend(audio))
DoAudioClose(settled) ==
  /\ Len(audio.closing) < MaxClosing
  /\ AudioBecomes("close", AudioClose(audio, settled))
DoAudioClosed(k) ==
  /\ k \in 1..Len(audio.closing)
  /\ AudioBecomes("closed", AudioClosed(audio, k))
DoAudioGetContext == AudioBecomes("getContext", AudioGetContext(audio))
DoAudioDestination == AudioBecomes("destination", AudioDestination(audio))

NextAudio ==
  \/ \E nativeFails \in BOOLEAN, state \in {"suspended", "running"} :
       DoAudioInitialize(nativeFails, state)
  \/ DoAudioResume
  \/ DoAudioSuspend
  \/ \E settled \in BOOLEAN : DoAudioClose(settled)
  \/ \E k \in 1..MaxClosing : DoAudioClosed(k)
  \/ DoAudioGetContext
  \/ DoAudioDestination

SpecAudio == Init /\ [][NextAudio]_vars

\* The oscillator in a patch: the modules 1, 3 and 5 (a filter, the
\* oscillator, a VCA) are constructed, which registers them; the manager
\* connects, disconnects and clears, the oscillator's frequency is written,
\* and the oscillator is started, stopped and switched between two waveforms.
\* A native connect may throw; native disconnects do not.
WaveObj == {1, 3, 5}
WaveIds == {idOf(o) : o \in WaveObj}
OscillatorObj == {o \in WaveObj : NodeTable[o].kind = "OscillatorModule"}
WaveformInputs == {"sine", "square"}

InitWave ==
  /\ \E cfg \in Configs : maxConnections = Constructor(cfg)
  /\ nodes = [id \in NodeIds |->
                IF id \in WaveIds THEN CHOOSE o \in WaveObj : idOf(o) = id
                ELSE NoNode]
  /\ connections = <<>>
  /\ objState = [o \in Obj |-> IF o \in WaveObj THEN "live" ELSE "none"]
  /\ inputs = [o \in Obj |-> IF o \in WaveObj THEN InitialInputs(o) ELSE NoPorts]
  /\ outputs = [o \in Obj |->
                  IF o \in WaveObj THEN InitialOutputs(o) ELSE [n \in {} |-> {}]]
  /\ native = {}
  /\ parameters = [o \in Obj |->
                     IF o \in WaveObj THEN InitialParameters(o) ELSE NoPorts]
  /\ isActive = [o \in Obj |-> FALSE]
  /\ hooks = <<>>
  /\ config = [o \in Obj |-> {}]
  /\ registeredNames = [o \in Obj |-> NoNames]
  /\ audio = NewAudioContextManager
  /\ managers = NewWorld.managers
  /\ globalAudioManager = NewWorld.globalAudioManager
  /\ contexts = NewWorld.contexts
  /\ oscillator = [o \in Obj |-> NewOscillator]
  /\ position = [o \in Obj |-> DefaultPosition]
  /\ serialized = NoData
  /\ ui = OscillatorUI
  /\ declarations = OscillatorDeclarations
  /\ callerUI = NoUI
  /\ lastHook = [o \in Obj |-> ""]
  /\ levelMonitoringId = NoHandle
  /\ frames = {}
  /\ handles = 0
  /\ listeners = {}
  /\ attached = {}
  /\ stale = NoStale
  /\ last = [op |-> "new OscillatorModule", args |-> <<>>, err |-> "none",
             removed |-> 0, warned |-> 0]

\* The module operation `op` called on object o ended as r, the life-cycle
\* flags being ls afterwards; last.args holds o and the waveform o had.
ModuleBecomes(op, o, r, ls) ==
  /\ nodes' = r.st.nodes
  /\ connections' = r.st.connections
  /\ objState' = r.st.objState
  /\ inputs' = r.st.inputs
  /\ outputs' = r.st.outputs
  /\ native' = r.st.native
  /\ parameters' = r.st.parameters
  /\ oscillator' = [oscillator EXCEPT ![o] = r.osc]
  /\ isActive' = [isActive EXCEPT ![o] = ls.isActive]
  /\ hooks' = ls.hooks
  /\ lastHook' = [lastHook EXCEPT ![o] = LastStartStop(@, ls.hooks)]
  /\ last' = [op |-> op, args |-> <<o, oscillator[o].currentWaveform>>,
              err |-> r.err, warned |-> 0, removed |-> 0]
  /\ UNCHANGED <<maxConnections, config, registeredNames, audio, globalVars,
                 position, serialized, uiVars, meterVars,
                 listenerVars>>

\* osc.start(): EurorackAudioNode.start() with OscillatorModule.onStart as
\* its hook.
DoOscillatorStart(o, restartThrows) ==
  LET ls == Start(Calling(o))
  IN ModuleBecomes("start", o,
                   ModuleResult(State,
                                IF ls.hooks = <<>> THEN oscillator[o]
                                ELSE OscillatorOnStart(oscillator[o], restartThrows),
                                "none"),
                   ls)

\* osc.stop()
DoOscillatorStop(o) ==
  LET ls == Stop(Calling(o))
  IN ModuleBecomes("stop", o,
                   ModuleResult(State,
                                IF ls.hooks = <<>> THEN oscillator[o]
                                ELSE OscillatorOnStop(oscillator[o]),
                                "none"),
                   ls)

DoSetWaveform(o, waveform) ==
  ModuleBecomes("setWaveform", o, SetWaveform(State, oscillator[o], o, waveform),
                [isActive |-> isActive[o], hooks |-> <<>>])

NextWaveform ==
  \/ \E s \in WaveIds, so \in OutputNames, t \in WaveIds, ti \in InputNames,
        nativeFails \in BOOLEAN : DoConnect(s, so, t, ti, nativeFails)
  \/ \E connectionId \in ConnIds : DoDisconnect(connectionId, FALSE)
  \/ DoClear({})
  \/ \E o \in OscillatorObj : DoSetParameter(o, "frequency", MaxInput)
  \/ \E o \in OscillatorObj, restartThrows \in BOOLEAN :
       DoOscillatorStart(o, restartThrows)
  \/ \E o \in OscillatorObj : DoOscillatorStop(o)
  \/ \E o \in OscillatorObj, waveform \in WaveformInputs :
       DoSetWaveform(o, waveform)

SpecWaveform == InitWave /\ [][NextWaveform]_vars

\* Serialization on its own: the oscillator 3 is constructed with every
\* combination of its options, has parameters written, is moved, started,
\* stopped, activated, deactivated and switched between waveforms; it is
\* serialized and disposed, in either order, and the data is deserialized
\* into object 7.
SerialObj == 3
DeserializedObj == 7
PositionInputs == {[x |-> 1], [x |-> 0, y |-> 1]}

\* A call that writes the position or the data object ended.
SerialBecomes(op, o, pos, data) ==
  /\ position' = [position EXCEPT ![o] = pos]
  /\ serialized' = data
  /\ last' = [op |-> op, args |-> <<o>>, err |-> "none", warned |-> 0,
              removed |-> 0]
  /\ UNCHANGED <<maxConnections, nodes, connections, objState, inputs,
                 outputs, native, parameters, isActive, hooks, config,
                 registeredNames, audio, globalVars, oscillator, uiVars,
                 historyVars, meterVars,
                 listenerVars>>

DoNewOscillatorModule(o, options) ==
  /\ objState[o] = "none"
  /\ ModuleBecomes("new OscillatorModule", o,
                   NewOscillatorModule(State, o, options, NaN, ""), Flags(FALSE))

DoSetPosition(o, partial) ==
  SerialBecomes("setPosition", o, SetPosition(position[o], partial), serialized)

DoSerialize(o) ==
  SerialBecomes("serialize", o, position[o],
                Serialize(State, o, oscillator[o], position[o], isActive[o]))

\* The deserialize call that constructed object o ended as r.
DeserializeBecomes(o, r) ==
  /\ nodes' = r.st.nodes
  /\ connections' = r.st.connections
  /\ objState' = r.st.objState
  /\ inputs' = r.st.inputs
  /\ outputs' = r.st.outputs
  /\ native' = r.st.native
  /\ parameters' = r.st.parameters
  /\ oscillator' = [oscillator EXCEPT ![o] = r.osc]
  /\ position' = [position EXCEPT ![o] = r.pos]
  /\ isActive' = [isActive EXCEPT ![o] = r.ls.isActive]
  /\ hooks' = r.ls.hooks
  /\ last' = [op |-> "deserialize", args |-> <<o>>, err |-> r.err,
              warned |-> 0, removed |-> 0]
  /\ UNCHANGED <<maxConnections, config, registeredNames, audio, globalVars,
                 serialized, uiVars, historyVars, meterVars,
                 listenerVars>>

DoDeserialize(data, o) == DeserializeBecomes(o, Deserialize(State, data, o))

NextSerialize ==
  \/ \E options \in SUBSET Options(SerialObj) :
       DoNewOscillatorModule(SerialObj, options)
  \/ /\ serialized = NoData
     /\ objState[SerialObj] = "live"
     /\ \/ \E name \in {"frequency", "fmAmount"}, value \in {NaN, MaxInput} :
             DoSetParameter(SerialObj, name, value)
        \/ \E partial \in PositionInputs : DoSetPosition(SerialObj, partial)
        \/ \E restartThrows \in BOOLEAN : DoOscillatorStart(SerialObj, restartThrows)
        \/ DoOscillatorStop(SerialObj)
        \/ DoActivate(SerialObj)
        \/ DoDeactivate(SerialObj)
        \/ \E waveform \in WaveformInputs : DoSetWaveform(SerialObj, waveform)
  \/ /\ serialized = NoData
     /\ objState[SerialObj] # "none"
     /\ DoSerialize(SerialObj)
  \/ objState[SerialObj] = "live" /\ DoDispose(SerialObj, {}, "none")
  \/ /\ serialized # NoData
     /\ objState[SerialObj] = "disposed"
     /\ objState[DeserializedObj] = "none"
     /\ DoDeserialize(serialized, DeserializedObj)

SpecSerialize == Init /\ [][NextSerialize]_vars

\* The UI on its own: the oscillator 3 is constructed; a caller calls
\* getUI(), pushes a knob of its own onto a list it got, pops a list it got,
\* writes a field of a declaration it got, and calls setParameter.
UIObj == 3
MaxDeclarations == 4
FakeKnob == [id |-> "fake-knob", parameterName |-> "fake"]
FieldInputs == {"frequency", "detune"}

\* A call that touches the UI ended: `lists` is the module's ui afterwards,
\* `heap` the declaration objects, `got` what the caller holds.
UIBecomes(op, lists, heap, got) ==
  /\ ui' = lists
  /\ declarations' = heap
  /\ callerUI' = got
  /\ last' = [op |-> op, args |-> <<>>, err |-> "none", warned |-> 0,
              removed |-> 0]
  /\ UNCHANGED <<maxConnections, nodes, connections, objState, inputs,
                 outputs, native, parameters, isActive, hooks, config,
                 registeredNames, audio, globalVars, moduleVars,
                 historyVars, meterVars,
                 listenerVars>>

DoGetUI == UIBecomes("getUI", ui, declarations, getUI(ui))

\* ui.knobs.push({ id: 'fake-knob', ... }) on the structure getUI() returned
DoCallerPush ==
  /\ Len(declarations) < MaxDeclarations
  /\ LET list == Append(callerUI.knobs, Len(declarations) + 1)
     IN UIBecomes("push", ui,
                  Append(declarations, FakeKnob),
                  [callerUI EXCEPT !.knobs = list])

\* ui[name].pop() on the structure getUI() returned
DoCallerPop(name) ==
  /\ callerUI[name] # <<>>
  /\ LET list == SubSeq(callerUI[name], 1, Len(callerUI[name]) - 1)
     IN UIBecomes("pop", ui, declarations,
                  [callerUI EXCEPT ![name] = list])

\* ui[name][i][field] = value on the structure getUI() returned
DoCallerWrite(name, i, field, value) ==
  /\ i \in 1..Len(callerUI[name])
  /\ field \in DOMAIN declarations[callerUI[name][i]]
  /\ UIBecomes("write", ui,
                [declarations EXCEPT ![callerUI[name][i]][field] = value],
                callerUI)

\* module.setParameter(name, value); last.args holds the knob and the LED
\* the call dispatched to, and the hook calls it made (none when
\* super.setParameter threw).
DoModuleSetParameter(o, name, value) ==
  LET r == SetParameter(State, o, name, value)
  IN Becomes("setParameter",
             <<o, name, Dispatch(ui, declarations, name),
               IF r.err # "none" THEN <<>>
               ELSE SetParameterHooks(ui, declarations, name, value)>>,
             r)

\* module.setLEDState(ledId, isOn, intensity); last.args holds the
\* arguments and the hook calls made.
LedIds == {"activity-led", "missing-led"}
Intensities == {Undefined, 0, 5}
DoSetLEDState(ledId, isOn, intensity) ==
  Becomes("setLEDState",
          <<ledId, isOn, intensity,
            SetLEDState(ui, declarations, ledId, isOn, intensity)>>,
          Ok(State))

NextUI ==
  \/ DoGetUI
  \/ DoCallerPush
  \/ \E name \in {"knobs", "leds"} : DoCallerPop(name)
  \/ \E name \in {"knobs", "leds"}, i \in 1..MaxDeclarations,
        field \in {"parameterName", "linkedParameter"}, value \in FieldInputs :
       DoCallerWrite(name, i, field, value)
  \/ \E name \in {"frequency", "detune"}, value \in {MaxInput, 21} :
       DoModuleSetParameter(UIObj, name, value)
  \/ \E ledId \in LedIds, isOn \in BOOLEAN, intensity \in Intensities :
       DoSetLEDState(ledId, isOn, intensity)

SpecUI == InitWave /\ [][NextUI]_vars

\* The singleton on its own: getAudioManager() and resetAudioManager() are
\* called, initialize() and close() are called on the manager
\* getAudioManager() returns, and every suspended close() resumes at some
\* point, on whichever manager it was called.
World ==
  [managers |-> managers, globalAudioManager |-> globalAudioManager,
   contexts |-> contexts]

\* The world `w` is the next state and `last` records the call.
WorldBecomes(op, w, err) ==
  /\ managers' = w.managers
  /\ globalAudioManager' = w.globalAudioManager
  /\ contexts' = w.contexts
  /\ last' = [op |-> op, args |-> <<>>, err |-> err, warned |-> 0,
              removed |-> 0]
  /\ UNCHANGED <<maxConnections, nodes, connections, objState, inputs,
                 outputs, native, parameters, isActive, hooks, config,
                 registeredNames, audio, moduleVars, uiVars,
                 historyVars, meterVars,
                 listenerVars>>

DoGetAudioManager ==
  LET w == getAudioManager(World)
  IN /\ Len(w.managers) <= MaxManagers
     /\ WorldBecomes("getAudioManager", w, "none")

DoResetAudioManager(settled) ==
  /\ globalAudioManager # NoManager =>
       Len(managers[globalAudioManager].closing) < MaxClosing
  /\ WorldBecomes("resetAudioManager", resetAudioManager(World, settled), "none")

\* getAudioManager().initialize()
DoManagerInitialize(nativeFails, state) ==
  /\ globalAudioManager # NoManager
  /\ LET r == AudioInitialize(ManagerOf(World, globalAudioManager),
                              nativeFails, state)
     IN /\ Len(r.am.states) <= MaxContexts
        /\ WorldBecomes("initialize",
                        OnManager(World, globalAudioManager, r.am), r.err)

\* getAudioManager().close(), to its await
DoManagerClose(settled) ==
  /\ globalAudioManager # NoManager
  /\ Len(managers[globalAudioManager].closing) < MaxClosing
  /\ WorldBecomes("close",
                  OnManager(World, globalAudioManager,
                            AudioClose(ManagerOf(World, globalAudioManager),
                                       settled).am), "none")

\* The k-th suspended close() of manager i resumes.
DoManagerClosed(i, k) ==
  /\ i \in 1..Len(managers)
  /\ k \in 1..Len(managers[i].closing)
  /\ WorldBecomes("closed",
                  OnManager(World, i, AudioClosed(ManagerOf(World, i), k).am),
                  "none")

NextAudioGlobal ==
  \/ DoGetAudioManager
  \/ \E settled \in BOOLEAN : DoResetAudioManager(settled)
  \/ \E nativeFails \in BOOLEAN, state \in {"suspended", "running"} :
       DoManagerInitialize(nativeFails, state)
  \/ \E settled \in BOOLEAN : DoManagerClose(settled)
  \/ \E i \in 1..MaxManagers, k \in 1..MaxClosing : DoManagerClosed(i, k)

SpecAudioGlobal == Init /\ [][NextAudioGlobal]_vars

\* The nodes on their own: the nodes 4..6 are constructed, and connect and
\* disconnect are called directly on the nodes 4 and 5 with the nodes 5 and 6
\* as targets, with the names of ports they have and of a port none has.  The native connect may throw.  The
\* native disconnect of a destination the output is not linked to throws on
\* the platform (InvalidAccessError) and returns in the test environment;
\* the other native disconnects return.
NodeOutputNames == {"output", "aux"}
NodeInputNames == {"input", "aux"}
NodeSources == {4, 5}
NodeTargets == {5, 6}

DoNodeConnect(src, outName, tgt, inName, nativeFails) ==
  Becomes("node.connect", <<src, outName, tgt, inName>>,
          NodeConnect(State, src, outName, tgt, inName, nativeFails))

DoNodeDisconnect(src, outName, tgt, inName, nativeFails) ==
  /\ nativeFails => <<src, outName, tgt, inName>> \notin native
  /\ Becomes("node.disconnect", <<src, outName, tgt, inName>>,
             NodeDisconnect(State, src, outName, tgt, inName, nativeFails))

DoNodeDisconnectOutput(src, outName) ==
  Becomes("node.disconnect", <<src, outName>>,
          NodeDisconnectOutput(State, src, outName, FALSE))

DoNodeDisconnectAll(src) ==
  Becomes("node.disconnect", <<src>>, NodeDisconnectAll(State, src, FALSE))

NextNode ==
  \/ \E src \in NodeSources, outName \in NodeOutputNames, tgt \in NodeTargets,
        inName \in NodeInputNames, nativeFails \in BOOLEAN :
       DoNodeConnect(src, outName, tgt, inName, nativeFails)
  \/ \E src \in NodeSources, outName \in NodeOutputNames, tgt \in NodeTargets,
        inName \in NodeInputNames, nativeFails \in BOOLEAN :
       DoNodeDisconnect(src, outName, tgt, inName, nativeFails)
  \/ \E src \in NodeSources, outName \in NodeOutputNames :
       DoNodeDisconnectOutput(src, outName)
  \/ \E src \in NodeSources : DoNodeDisconnectAll(src)

SpecNode == InitGraph /\ [][NextNode]_vars

\* Level metering on its own: the output module 8 and the filter 4 are
\* constructed, the filter is connected to the output module's input and
\* disconnected, the output module is started, stopped, activated and
\* deactivated, the platform runs animation frames, and the output module is
\* disposed; the native cleanup of its onDispose may throw.
OutputObj == 8
MeterSource == 4

\* The operation `op` called on the output module ended as r and left the
\* metering as m.
OutputBecomes(op, o, r, m) ==
  /\ nodes' = r.st.nodes
  /\ connections' = r.st.connections
  /\ objState' = r.st.objState
  /\ inputs' = r.st.inputs
  /\ outputs' = r.st.outputs
  /\ native' = r.st.native
  /\ parameters' = r.st.parameters
  /\ levelMonitoringId' = m.levelMonitoringId
  /\ frames' = m.frames
  /\ handles' = m.handles
  /\ last' = [op |-> op, args |-> <<o>>, err |-> r.err, warned |-> r.warned,
              removed |-> 0]
  /\ UNCHANGED <<maxConnections, isActive, hooks, config, registeredNames, audio,
                 globalVars, moduleVars, uiVars, historyVars, listenerVars>>

\* new OutputModule(config): the BaseModule constructor, applyConfig() and
\* then startLevelMonitoring(); a constructor that throws starts nothing.
DoNewOutputModule(o) ==
  /\ objState[o] = "none"
  /\ LET c == ModuleConstruct(State, o)
     IN OutputBecomes("new OutputModule", o, c,
                      IF c.err = "none" THEN StartLevelMonitoring(Meter) ELSE Meter)

\* The platform runs an animation frame callback of the output module.
DoAnimationFrame(o, h) ==
  /\ h \in frames
  /\ handles < MaxFrames
  /\ OutputBecomes("animationFrame", o, Ok(State), AnimationFrame(Meter, h))

\* output.dispose(): unregisterNode, disconnect() (the module has no output,
\* so no native call is made), and onDispose(), which calls
\* stopLevelMonitoring() before its native cleanup.
DoOutputDispose(o, failSet, fails) ==
  /\ objState[o] # "none"
  /\ LET u == UnregisterNode(State, idOf(o), failSet)
         d == NodeDisconnectAll(u.st, o, fails = "disconnect")
     IN OutputBecomes("dispose", o,
                      IF u.err # "none" THEN u
                      ELSE Warned(NodeDispose(u.st, o, fails), u.warned),
                      IF u.err # "none" \/ d.err # "none" THEN Meter
                      ELSE StopLevelMonitoring(Meter))

NextMeter ==
  \/ DoNewOutputModule(OutputObj)
  \/ DoConstruct(MeterSource)
  \/ \E nativeFails \in BOOLEAN :
       DoConnect(idOf(MeterSource), "output", idOf(OutputObj), "input", nativeFails)
  \/ \E connectionId \in ConnIds, nativeFails \in BOOLEAN :
       DoDisconnect(connectionId, nativeFails)
  \/ objState[OutputObj] = "live" /\ DoStart(OutputObj)
  \/ objState[OutputObj] = "live" /\ DoStop(OutputObj)
  \/ objState[OutputObj] = "live" /\ DoActivate(OutputObj)
  \/ objState[OutputObj] = "live" /\ DoDeactivate(OutputObj)
  \/ \E h \in 1..MaxFrames : DoAnimationFrame(OutputObj, h)
  \/ \E fails \in DisposeFailures :
       \E failSet \in SUBSET TouchingIds(idOf(OutputObj)) :
         DoOutputDispose(OutputObj, failSet, fails)

SpecMeter == Init /\ [][NextMeter]_vars

\* The state-change subscriptions on their own: callbacks are subscribed
\* and unsubscribed, the manager is initialized and closed, and the native
\* contexts that are not closed change between "suspended" and "running"
\* (through resume(), suspend() or the platform) and dispatch 'statechange'.
\* last.args holds the context concerned and the callbacks invoked.
ListenBecomes(op, args, am, ln) ==
  /\ audio' = am
  /\ listeners' = ln.listeners
  /\ attached' = ln.attached
  /\ stale' = ln.stale
  /\ last' = [op |-> op, args |-> args, err |-> "none", warned |-> 0,
              removed |-> 0]
  /\ UNCHANGED <<maxConnections, nodes, connections, objState, inputs,
                 outputs, native, parameters, isActive, hooks, config,
                 registeredNames, globalVars, moduleVars, uiVars, historyVars,
                 meterVars>>

DoOnStateChange(cb) ==
  ListenBecomes("onStateChange", <<NoContext, {}>>, audio,
                OnStateChange(Listening, cb))

DoUnsubscribe(cb) ==
  /\ cb \in listeners \cup stale.unsubscribed \cup stale.closed
  /\ ListenBecomes("unsubscribe", <<NoContext, {}>>, audio,
                   Unsubscribe(Listening, cb))

DoListenInitialize(state) ==
  LET r == AudioInitialize(audio, FALSE, state)
  IN /\ Len(r.am.states) <= MaxContexts
     /\ ListenBecomes("initialize", <<r.returned, {}>>, r.am,
                      ListenInitialize(Listening, r))

DoListenClose(settled) ==
  /\ Len(audio.closing) < MaxClosing
  /\ ListenBecomes("close", <<audio.context, {}>>, AudioClose(audio, settled).am,
                   ListenClose(Listening, audio))

DoListenClosed(k) ==
  /\ k \in 1..Len(audio.closing)
  /\ ListenBecomes("closed", <<audio.closing[k], {}>>, AudioClosed(audio, k).am,
                   ListenClosed(Listening))

DoStateChange(c, state) ==
  /\ c \in 1..Len(audio.states)
  /\ audio.states[c] \notin {"closed", state}
  /\ ListenBecomes("statechange", <<c, HandleStateChange(Listening, c)>>,
                   [audio EXCEPT !.states[c] = state], Listening)

NextListen ==
  \/ \E cb \in Callbacks : DoOnStateChange(cb)
  \/ \E cb \in Callbacks : DoUnsubscribe(cb)
  \/ \E state \in {"suspended", "running"} : DoListenInitialize(state)
  \/ \E settled \in BOOLEAN : DoListenClose(settled)
  \/ \E k \in 1..MaxClosing : DoListenClosed(k)
  \/ \E c \in 1..MaxContexts, state \in {"suspended", "running"} :
       DoStateChange(c, state)

SpecListen == Init /\ [][NextListen]_vars

\* The gain node on its own: the node 6 is constructed with every
\* configuration {minGain: a, maxGain: b, initialGain: g}, a <= g <= b, or
\* with none, and its gain is set through setGain and the ramps.
GainNodeObj == 6
GainConfigs ==
  {NoGainConfig} \cup
  {[minGain |-> a, maxGain |-> b, initialGain |-> g] :
     <<a, g, b>> \in {t \in (0..MaxGain) \X (0..MaxGain) \X (0..MaxGain) :
                       t[1] <= t[2] /\ t[2] <= t[3]}}

DoNewGainNode(o, cfg) ==
  /\ objState[o] = "none"
  /\ StepTo("new EurorackGainNode", o, NewGainNode(State, o, cfg).st)
  /\ config' = [config EXCEPT ![o] = cfg]
  /\ UNCHANGED registeredNames

NextGain ==
  \/ \E cfg \in GainConfigs : DoNewGainNode(GainNodeObj, cfg)
  \/ \E value \in ParameterInputs :
       objState[GainNodeObj] = "live" /\ DoSetGain(GainNodeObj, value)
  \/ \E value \in ParameterInputs :
       objState[GainNodeObj] = "live" /\ DoSetGainAtTime(GainNodeObj, value)
  \/ \E value \in ParameterInputs :
       objState[GainNodeObj] = "live" /\ DoLinearRampToGain(GainNodeObj, value)

SpecGain == Init /\ [][NextGain]_vars

\* The connection ids on their own: the nodes 4..6 are constructed and
\* registered, and connect stores each connection under whichever id
\* generateConnectionId returns, an id of the ledger included.  Native connects and disconnects do not throw.
DoConnectRandomId(sourceNodeId, sourceOutput, targetNodeId, targetInput, nativeFails) ==
  \E connectionId \in randomConnectionIds :
    Becomes("connect", <<sourceNodeId, targetNodeId>>,
            Connect(State, maxConnections, sourceNodeId, sourceOutput,
                    targetNodeId, targetInput, connectionId, nativeFails))

NextIds ==
  \/ \E s \in NodeSources, so \in OutputNames, t \in NodeTargets, ti \in InputNames :
       DoConnectRandomId(idOf(s), so, idOf(t), ti, FALSE)
  \/ \E connectionId \in ConnIds : DoDisconnect(connectionId, FALSE)

SpecIds == InitGraph /\ [][NextIds]_vars

\* ----------------------------------------------------- vocabulary of claims

\* Some ledger connection has input `inputName` of node `nodeId` as its target.
InputOccupied(nodeId, inputName) ==
  \E i \in 1..Len(connections) :
    /\ connections[i].targetNodeId = nodeId
    /\ connections[i].targetInput = inputName

\* Connection c has node `nodeId` as its source or as its target.
Touches(c, nodeId) == c.sourceNodeId = nodeId \/ c.targetNodeId = nodeId

\* The directed graph of the ledger, and the nodes reachable from the set S
\* along zero or more of its edges.
Edges == {<<connections[i].sourceNodeId, connections[i].targetNodeId>> :
            i \in 1..Len(connections)}
RECURSIVE ReachableFrom(_)
ReachableFrom(S) ==
  LET step == S \cup {e[2] : e \in {d \in Edges : d[1] \in S}}
  IN IF step = S THEN S ELSE ReachableFrom(step)
Reaches(a, b) == b \in ReachableFrom({a})

\* The calls of connect and canConnect: every node id, every port name.
Requests == NodeIds \X OutputNames \X NodeIds \X InputNames

\* connect(q), ended, when the native connect throws iff nativeFails.
ConnectOf(q, connectionId, nativeFails) ==
  Connect(State, maxConnections, q[1], q[2], q[3], q[4], connectionId, nativeFails)

\* The four checks of connect pass for request q.
PassesChecks(q) ==
  /\ nodes[q[1]] # NoNode
  /\ nodes[q[3]] # NoNode
  /\ ~InputOccupied(q[3], q[4])
  /\ Len(connections) < maxConnections

\* The ports request q names exist on the registered nodes it names.
PortsExist(q) ==
  /\ q[2] \in DOMAIN outputs[nodes[q[1]]]
  /\ q[4] \in DOMAIN inputs[nodes[q[3]]]

PortErrors == {"ConnectionFailed:OutputNotFound", "ConnectionFailed:InputNotFound"}

\* --------------------------------------------------------------------- C1

\* C1: no two ledger connections have the same (targetNodeId, targetInput),
\* and a connect to an input that has a connection, from any registered source
\* node, throws the already-connected error and changes nothing.
C1_SingleProducer ==
  /\ \A i, j \in 1..Len(connections) :
       (/\ connections[i].targetNodeId = connections[j].targetNodeId
        /\ connections[i].targetInput = connections[j].targetInput) => i = j
  /\ \A q \in Requests, connectionId \in ConnIds, nativeFails \in BOOLEAN :
       (nodes[q[1]] # NoNode /\ InputOccupied(q[3], q[4])) =>
         LET r == ConnectOf(q, connectionId, nativeFails)
         IN r.err = "InputAlreadyConnected" /\ r.st = State

\* A connect was refused as already connected, and its source node is not the
\* source of the connection that occupies the input.
C1_Witness ==
  /\ last.op = "connect"
  /\ last.err = "InputAlreadyConnected"
  /\ \E i \in 1..Len(connections) :
       /\ connections[i].targetNodeId = last.args[2]
       /\ connections[i].sourceNodeId # last.args[1]

\* --------------------------------------------------------------------- C2

\* C2: the directed graph of the ledger has no cycle, self-loops included: no
\* node is reachable from the target of one of its outgoing connections.
C2_NoCycle ==
  \A e \in Edges : ~Reaches(e[2], e[1])

\* --------------------------------------------------------------------- C3

\* C3: for every request that passes canConnect's node, port, single-producer
\* and limit checks, canConnect answers 'Connection would create feedback loop'
\* when the target node reaches the source node along zero or more ledger
\* connections, and canConnect = true otherwise.
C3_CycleCheckExact ==
  \A q \in Requests :
    (PassesChecks(q) /\ PortsExist(q)) =>
      CanConnect(State, maxConnections, q[1], q[2], q[3], q[4])
        = IF Reaches(q[3], q[1]) THEN "FeedbackLoop" ELSE "ok"

\* canConnect reported a feedback loop for a source that differs from the
\* target and that no single connection of the target leads to: the path it
\* found has two connections at least.
C3_Witness ==
  /\ last.op = "canConnect"
  /\ last.err = "FeedbackLoop"
  /\ last.args[1] # last.args[2]
  /\ <<last.args[2], last.args[1]>> \notin Edges

\* --------------------------------------------------------------------- C4

\* C4: the source and the target of every ledger connection are registered;
\* unregisterNode leaves no connection that touches the node it removes, and
\* clear leaves none at all.
C4_EndpointsRegistered ==
  /\ \A i \in 1..Len(connections) :
       /\ nodes[connections[i].sourceNodeId] # NoNode
       /\ nodes[connections[i].targetNodeId] # NoNode
  /\ \A nodeId \in NodeIds, failSet \in SUBSET ConnIds :
       LET r == UnregisterNode(State, nodeId, failSet).st
       IN r.nodes[nodeId] = NoNode =>
            \A i \in 1..Len(r.connections) : ~Touches(r.connections[i], nodeId)
  /\ \A failSet \in SUBSET ConnIds : Clear(State, failSet).st.connections = <<>>

\* unregisterNode removed connections of its node and left another in place.
C4_Witness ==
  /\ last.op = "unregisterNode"
  /\ last.removed >= 1
  /\ Len(connections) >= 1

\* --------------------------------------------------------------------- C5

\* C5: a manager constructed with maxConnections = N, for any N >= 0, never
\* holds more than N connections.
C5_ConnectionCap ==
  \A N \in 0..MaxConfig :
    maxConnections = Constructor(N) => Len(connections) <= N

\* --------------------------------------------------------------------- C6

\* C6: a connect that throws leaves registry, ledger, connected flags, fan-out
\* sets and native links as they were; when the four checks pass and the ports
\* exist, a throwing native connect is reported as connection-failed; a
\* connect that returns has recorded the connection, marked the target input
\* connected and put it in the source output's fan-out set.
C6_ConnectAtomic ==
  \A q \in Requests, connectionId \in ConnIds, nativeFails \in BOOLEAN :
    LET r == ConnectOf(q, connectionId, nativeFails)
        sourceNode == nodes[q[1]]
        targetNode == nodes[q[3]]
    IN /\ r.err # "none" => r.st = State
       /\ (PassesChecks(q) /\ PortsExist(q) /\ nativeFails) =>
            r.err = "ConnectionFailed:NativeConnectFailed"
       /\ r.err = "none" =>
            /\ getConnection(r.st.connections, connectionId) # NoConn
            /\ getConnection(r.st.connections, connectionId).sourceNodeId = q[1]
            /\ getConnection(r.st.connections, connectionId).targetNodeId = q[3]
            /\ getConnection(r.st.connections, connectionId).connected
            /\ r.st.inputs[targetNode][q[4]]
            /\ <<targetNode, q[4]>> \in r.st.outputs[sourceNode][q[2]]
            /\ <<sourceNode, q[2], targetNode, q[4]>> \in r.st.native

\* A connect failed in the native step while the ledger held a connection.
C6_Witness ==
  /\ last.op = "connect"
  /\ last.err = "ConnectionFailed:NativeConnectFailed"
  /\ Len(connections) >= 1

\* --------------------------------------------------------------------- C7

\* C7: connect reports the first failing check in the order source node,
\* target node, occupied input, connection limit, and reports a port-name
\* error only when all four checks pass.
C7_ErrorOrder ==
  \A q \in Requests, connectionId \in ConnIds, nativeFails \in BOOLEAN :
    LET e == ConnectOf(q, connectionId, nativeFails).err
    IN /\ nodes[q[1]] = NoNode => e = "SourceNodeNotFound"
       /\ (nodes[q[1]] # NoNode /\ nodes[q[3]] = NoNode) => e = "TargetNodeNotFound"
       /\ (nodes[q[1]] # NoNode /\ nodes[q[3]] # NoNode
           /\ InputOccupied(q[3], q[4])) => e = "InputAlreadyConnected"
       /\ (nodes[q[1]] # NoNode /\ nodes[q[3]] # NoNode
           /\ ~InputOccupied(q[3], q[4])
           /\ Len(connections) >= maxConnections) => e = "ConnectionLimit"
       /\ e \in PortErrors => PassesChecks(q)
       /\ (PassesChecks(q) /\ ~PortsExist(q)) => e \in PortErrors

\* A connect to an occupied input of a manager at its limit was reported as
\* already connected.
C7_Witness ==
  /\ last.op = "connect"
  /\ last.err = "InputAlreadyConnected"
  /\ Len(connections) >= maxConnections

\* --------------------------------------------------------------------- C8

\* C8: registerNode of an object whose id is registered throws the
\* duplicate-node error and leaves the registry as it was, also when a module
\* constructor makes the call; after unregisterNode(id), registerNode of an
\* object with that id succeeds and the registry maps the id to it.
C8_DuplicateRegistration ==
  \A o \in Obj :
    /\ (objState[o] = "live" /\ nodes[idOf(o)] # NoNode) =>
         LET r == RegisterNode(State, o)
         IN r.err = "DuplicateNode" /\ r.st = State
    /\ (objState[o] = "none" /\ IsModule(o) /\ nodes[idOf(o)] # NoNode) =>
         LET r == ModuleConstruct(State, o)
         IN r.err = "DuplicateNode" /\ r.st = State
    /\ objState[o] = "live" =>
         \A failSet \in SUBSET ConnIds :
           LET r == RegisterNode(UnregisterNode(State, idOf(o), failSet).st, o)
           IN r.err = "none" /\ r.st.nodes[idOf(o)] = o

\* registerNode of a live object was refused while the registry maps its id
\* to another object.
C8_Witness ==
  /\ last.op = "registerNode"
  /\ last.err = "DuplicateNode"
  /\ \E o \in Obj : objState[o] = "live" /\ nodes[idOf(o)] \notin {NoNode, o}

\* --------------------------------------------------------------------- C9

\* C9: dispose() of a registered module leaves its id unregistered and the
\* ledger equal to the old ledger without the connections that touch the id.
C9_DisposeCascades ==
  \A o \in Obj, failSet \in SUBSET ConnIds, fails \in DisposeFailures :
    (IsModule(o) /\ objState[o] = "live" /\ nodes[idOf(o)] = o) =>
      LET r == Dispose(State, o, failSet, fails).st
      IN /\ r.nodes[idOf(o)] = NoNode
         /\ \A i \in 1..Len(connections) :
              getConnection(r.connections, connections[i].id) =
                IF Touches(connections[i], idOf(o)) THEN NoConn
                ELSE connections[i]
         /\ r.connections =
              SelectSeq(connections, LAMBDA c : ~Touches(c, idOf(o)))

\* A dispose removed connections of the module and left another in place.
C9_Witness ==
  /\ last.op = "dispose"
  /\ last.err = "none"
  /\ last.removed >= 1
  /\ Len(connections) >= 1

\* -------------------------------------------------------------------- C10

\* C10: unregisterNode never throws; for a registered id it leaves the id
\* unregistered and no connection that touches it, whichever native
\* disconnects throw; for an unregistered id it changes nothing.
C10_BestEffortUnregister ==
  \A nodeId \in NodeIds, failSet \in SUBSET ConnIds :
    LET r == UnregisterNode(State, nodeId, failSet)
    IN /\ r.err = "none"
       /\ nodes[nodeId] # NoNode =>
            /\ r.st.nodes[nodeId] = NoNode
            /\ \A i \in 1..Len(r.st.connections) :
                 ~Touches(r.st.connections[i], nodeId)
       /\ nodes[nodeId] = NoNode => r.st = State

\* unregisterNode returned after a disconnect of its cascade had thrown.
C10_Witness ==
  /\ last.op = "unregisterNode"
  /\ last.err = "none"
  /\ last.warned >= 1
  /\ last.removed >= 1

\* -------------------------------------------------------------------- C11

\* C11: disconnect of an id the ledger does not hold throws the
\* connection-not-found error and changes nothing; disconnect of an id the
\* ledger holds returns and leaves the ledger without that entry and otherwise
\* as it was, whether or not the native disconnect throws.
C11_ManagerDisconnect ==
  \A connectionId \in ConnIds, nativeFails \in BOOLEAN :
    LET r == Disconnect(State, connectionId, nativeFails)
    IN IF connectionId \notin LiveIds
       THEN r.err = "ConnectionNotFound" /\ r.st = State
       ELSE /\ r.err = "none"
            /\ getConnection(r.st.connections, connectionId) = NoConn
            /\ r.st.connections =
                 SelectSeq(connections, LAMBDA c : c.id # connectionId)

\* A disconnect whose mechanical disconnect threw returned, its ledger entry
\* removed.
C11_Witness ==
  /\ last.op = "disconnect"
  /\ last.err = "none"
  /\ last.warned = 1
  /\ last.removed = 1

\* -------------------------------------------------------------------- C12

\* C12: for registered nodes A and B with no connection to B's input, a connect
\* that returns has recorded a connection with connected = true; the
\* disconnect of its id that follows returns, leaves getConnection(id)
\* undefined, the ledger as it was before the connect, B's input flag false and
\* A's fan-out set as it was before the connect, and the same connect then
\* succeeds again.
C12_RoundTrip ==
  \A q \in Requests, connectionId \in generateConnectionId(connections),
     nativeFails \in BOOLEAN :
    LET c == ConnectOf(q, connectionId, FALSE)
        sourceNode == nodes[q[1]]
        targetNode == nodes[q[3]]
    IN (/\ sourceNode # NoNode /\ targetNode # NoNode
        /\ ~InputOccupied(q[3], q[4])
        /\ c.err = "none") =>
         /\ getConnection(c.st.connections, connectionId).connected
         /\ LET d == Disconnect(c.st, connectionId, nativeFails)
            IN /\ d.err = "none"
               /\ getConnection(d.st.connections, connectionId) = NoConn
               /\ d.st.connections = connections
               /\ ~d.st.inputs[targetNode][q[4]]
               /\ d.st.outputs[sourceNode][q[2]] = outputs[sourceNode][q[2]]
               /\ Connect(d.st, maxConnections, q[1], q[2], q[3], q[4],
                          connectionId, FALSE).err = "none"

\* -------------------------------------------------------------------- C13

\* The number of ledger connections whose target is input n of the object
\* registered under their target node id.
TargetCount(o, n) ==
  Cardinality({i \in 1..Len(connections) :
                 /\ nodes[connections[i].targetNodeId] = o
                 /\ connections[i].targetInput = n})

\* C13: the connected flag of every input port is true exactly when one ledger
\* connection has that port as its target.
C13_ConnectedFlag ==
  \A o \in Obj :
    \A n \in DOMAIN inputs[o] : inputs[o][n] <=> (TargetCount(o, n) = 1)

\* -------------------------------------------------------------------- C14

\* C14: minValue <= value <= maxValue for every parameter of every node.
C14_ParameterBounds ==
  \A o \in Obj :
    \A n \in DOMAIN parameters[o] :
      /\ LessOrEqual(parameters[o][n].minValue, parameters[o][n].value)
      /\ LessOrEqual(parameters[o][n].value, parameters[o][n].maxValue)

\* -------------------------------------------------------------------- C15

\* C15: activate() on an inactive module invokes onStart once and then
\* onActivate; deactivate() on an active module invokes onStop once and then
\* onDeactivate.
C15_ActivateDrivesStart ==
  /\ (last.op = "activate" /\ ~last.args[2]) =>
       /\ Len(SelectSeq(hooks, LAMBDA h : h = "onStart")) = 1
       /\ \E i, j \in 1..Len(hooks) :
            i < j /\ hooks[i] = "onStart" /\ hooks[j] = "onActivate"
  /\ (last.op = "deactivate" /\ last.args[2]) =>
       /\ Len(SelectSeq(hooks, LAMBDA h : h = "onStop")) = 1
       /\ \E i, j \in 1..Len(hooks) :
            i < j /\ hooks[i] = "onStop" /\ hooks[j] = "onDeactivate"

\* -------------------------------------------------------------------- C16

\* C16: start() on an active node and stop() on an inactive node change
\* nothing and invoke no hook; start() on an inactive node sets the flag and
\* invokes onStart once, stop() on an active node clears the flag and invokes
\* onStop once.
C16_StartStopIdempotent ==
  \A o \in Obj :
    objState[o] = "live" =>
      /\ Start(Calling(o)) =
           IF isActive[o] THEN Calling(o)
           ELSE [isActive |-> TRUE, hooks |-> <<"onStart">>]
      /\ Stop(Calling(o)) =
           IF ~isActive[o] THEN Calling(o)
           ELSE [isActive |-> FALSE, hooks |-> <<"onStop">>]
      /\ Start(Start(Calling(o))) = Start(Calling(o))
      /\ Stop(Stop(Calling(o))) = Stop(Calling(o))

\* start() was called on a node that was active, and invoked nothing.
C16_Witness ==
  /\ last.op = "start"
  /\ last.args[2]
  /\ hooks = <<>>
  /\ isActive[last.args[1]]

\* -------------------------------------------------------------------- C17

\* C17: activate() on a module whose isModuleActive() is true and deactivate()
\* on a module whose isModuleActive() is false leave isActive as it is and
\* invoke no hook.
C17_ActivateIdempotent ==
  \A o \in Obj :
    (objState[o] = "live" /\ IsModule(o)) =>
      /\ isActive[o] => Activate(Calling(o)) = Calling(o)
      /\ ~isActive[o] => Deactivate(Calling(o)) = Calling(o)

\* activate() was called on a module that was active, and invoked nothing.
C17_Witness ==
  /\ last.op = "activate"
  /\ last.args[2]
  /\ hooks = <<>>
  /\ isActive[last.args[1]]

\* -------------------------------------------------------------------- C18

\* C18: from the moment a module registers with the PatchManager until it is
\* disposed, its input names, output names and parameter names are those it
\* had when it registered.
C18_FixedTopology ==
  \A o \in Obj :
    objState[o] \in {"registered", "live"} =>
      Names(State, o) = registeredNames[o]

\* -------------------------------------------------------------------- C19

\* C19: a canConnect call, whatever it is asked and whatever it answers,
\* leaves the registry, the ledger, every connected flag, every fan-out set,
\* the native links and the nodes as they were.
C19_CanConnectPure ==
  [][last'.op = "canConnect" =>
       UNCHANGED <<nodes, connections, objState, inputs, outputs, native,
                   parameters, maxConnections>>]_vars

\* canConnect answered true on a ledger that holds a connection.
C19_Witness ==
  /\ last.op = "canConnect"
  /\ last.err = "ok"
  /\ Len(connections) >= 1

\* -------------------------------------------------------------------- C20

\* C20: on a manager whose native context exists and is not closed,
\* initialize() returns that context, constructs no native context and leaves
\* the manager as it is, and so does the initialize() that follows it.
C20_InitializeIdempotent ==
  (audio.context # NoContext /\ audio.states[audio.context] # "closed") =>
    \A nativeFails \in BOOLEAN, state \in ContextStates :
      LET r == AudioInitialize(audio, nativeFails, state)
          s == AudioInitialize(r.am, nativeFails, state)
      IN /\ r = AudioResult(audio, "none", audio.context, 0)
         /\ s = r

\* An initialize() returned the manager's context without constructing one.
C20_Witness ==
  /\ last.op = "initialize"
  /\ last.err = "none"
  /\ audio.context # NoContext
  /\ last.args = <<audio.context, 0>>

\* -------------------------------------------------------------------- C21

\* C21: when a suspended close() resumes, the manager it leaves is not
\* initialized, getContext() on it throws the not-initialized error, and an
\* initialize() on it whose native constructor does not throw constructs a
\* context that did not exist before and returns it; close() on a manager
\* that holds no context changes nothing and returns; and in the state a
\* resumed close() has left, isInitialized() is false and getContext() throws.
C21_CloseLifecycle ==
  /\ \A k \in 1..Len(audio.closing) :
       LET r == AudioClosed(audio, k)
       IN /\ r.err = "none"
          /\ ~isInitialized(r.am)
          /\ AudioGetContext(r.am).err = "NotInitialized"
          /\ \A state \in {"suspended", "running"} :
               LET i == AudioInitialize(r.am, FALSE, state)
               IN /\ i.err = "none"
                  /\ i.constructed = 1
                  /\ i.returned \notin 1..Len(audio.states)
                  /\ i.am.context = i.returned
                  /\ i.am.states[i.returned] = state
                  /\ isInitialized(i.am)
  /\ audio.context = NoContext =>
       \A settled \in BOOLEAN :
         AudioClose(audio, settled) = AudioResult(audio, "none", NoContext, 0)
  /\ last.op = "closed" =>
       /\ ~isInitialized(audio)
       /\ AudioGetContext(audio).err = "NotInitialized"

\* A close() of a manager that held a context has completed.
C21_Witness ==
  /\ last.op = "closed"
  /\ Len(audio.states) >= 1
  /\ audio.context = NoContext
  /\ audio.closing = <<>>

\* -------------------------------------------------------------------- C22

\* The native contexts that were constructed and are not closed.
LiveContexts == {c \in 1..Len(contexts) : contexts[c] # "closed"}

\* C22: at most one native context is constructed and not closed, and when
\* no close() is suspended every such context is the context of the manager
\* globalAudioManager refers to.
C22_OneLiveContext ==
  /\ Cardinality(LiveContexts) <= 1
  /\ (\A i \in 1..Len(managers) : managers[i].closing = <<>>) =>
       \A c \in LiveContexts :
         /\ globalAudioManager # NoManager
         /\ managers[globalAudioManager].context = c

\* -------------------------------------------------------------------- C23

\* C23: on a manager whose context is null, resume(), suspend(),
\* getContext() and the destination getter each throw the not-initialized
\* error and leave the manager as it is.
C23_UseBeforeInitialize ==
  audio.context = NoContext =>
    /\ AudioResume(audio) = AudioResult(audio, "NotInitialized", NoContext, 0)
    /\ AudioSuspend(audio) = AudioResult(audio, "NotInitialized", NoContext, 0)
    /\ AudioGetContext(audio) = AudioResult(audio, "NotInitialized", NoContext, 0)
    /\ AudioDestination(audio) = AudioResult(audio, "NotInitialized", NoContext, 0)

\* resume() threw the not-initialized error on a manager that had been
\* initialized and closed.
C23_Witness ==
  /\ last.op = "resume"
  /\ last.err = "NotInitialized"
  /\ audio.context = NoContext
  /\ Len(audio.states) >= 1

\* -------------------------------------------------------------------- C26

\* C26: dispose() on an object that is already disposed, with no native call
\* failing, does not throw and leaves the registry and the ledger as they are.
C26_DoubleDispose ==
  \A o \in LifeObj :
    objState[o] = "disposed" =>
      LET r == Dispose(State, o, {}, "none")
      IN /\ r.err = "none"
         /\ r.st.nodes = nodes
         /\ r.st.connections = connections

\* -------------------------------------------------------------------- C28

\* C28: clear() never throws and leaves no node registered and no connection
\* in the ledger, whichever native disconnects fail; and the state a clear()
\* has left is that state.
C28_ClearTotal ==
  /\ \A failSet \in SUBSET LiveIds :
       LET r == Clear(State, failSet)
       IN /\ r.err = "none"
          /\ r.st.connections = <<>>
          /\ \A id \in NodeIds : r.st.nodes[id] = NoNode
  /\ last.op = "clear" =>
       /\ last.err = "none"
       /\ connections = <<>>
       /\ \A id \in NodeIds : nodes[id] = NoNode

\* A clear() removed a connection whose native disconnect failed.
C28_Witness ==
  /\ last.op = "clear"
  /\ last.removed >= 1
  /\ last.warned >= 1
  /\ connections = <<>>

\* -------------------------------------------------------------------- C29

\* C29: getStats().connectionCount is the length of getAllConnections() and
\* getStats().nodeCount is the length of getAllNodes().
C29_StatsConsistent ==
  LET stats == getStats(State, maxConnections)
  IN /\ stats.connectionCount = Len(getAllConnections(State))
     /\ stats.nodeCount = Cardinality(DOMAIN getAllNodes(State))

\* An unregisterNode removed a connection and left another node registered.
C29_Witness ==
  /\ last.op = "unregisterNode"
  /\ last.removed >= 1
  /\ getStats(State, maxConnections).nodeCount >= 1

\* -------------------------------------------------------------------- C27

\* The requests from the output of oscillator o.
RequestsFrom(o) == {q \in Requests : q[1] = idOf(o) /\ q[2] = "output"}

\* C27: setWaveform(w) on a live, registered oscillator whose waveform is not
\* w, running or stopped, returns; afterwards getCurrentWaveform() is w, the
\* oscillator still has its 'output' port with the fan-out set it had, the
\* registry and the ledger are as before, and a connect from that output that
\* passes the manager's checks, to an input that exists and with the native
\* connect not failing, returns and adds its connection.
C27_SetWaveformKeepsPort ==
  \A o \in OscillatorObj, w \in Waveforms :
    (objState[o] = "live" /\ nodes[idOf(o)] = o
       /\ oscillator[o].currentWaveform # w) =>
      LET r == SetWaveform(State, oscillator[o], o, w)
      IN /\ r.err = "none"
         /\ getCurrentWaveform(r.osc) = w
         /\ r.osc.isRunning = oscillator[o].isRunning
         /\ "output" \in DOMAIN r.st.outputs[o]
         /\ r.st.outputs[o] = outputs[o]
         /\ r.st.connections = connections
         /\ r.st.nodes = nodes
         /\ \A q \in RequestsFrom(o), connectionId \in generateConnectionId(connections) :
              (PassesChecks(q) /\ PortsExist(q)) =>
                LET c == Connect(r.st, maxConnections, q[1], q[2], q[3], q[4],
                                 connectionId, FALSE)
                IN /\ c.err = "none"
                   /\ Len(c.st.connections) = Len(connections) + 1
                   /\ <<o, "output", nodes[q[3]], q[4]>> \in c.st.native

\* A connect from the oscillator's output succeeded after setWaveform had
\* changed the waveform of the running oscillator, which had a connection.
C27_Witness ==
  \E o \in OscillatorObj :
    /\ last.op = "connect"
    /\ last.err = "none"
    /\ last.args[1] = idOf(o)
    /\ oscillator[o].currentWaveform # "sine"
    /\ oscillator[o].isRunning
    /\ Len(connections) = 2

\* -------------------------------------------------------------------- C30

\* C30: every connection of the ledger with connected = true has its native
\* link, from the source node's output to the target node's input, and its
\* target input in the fan-out set of that output.
C30_LedgerMatchesNative ==
  \A i \in 1..Len(connections) :
    LET c == connections[i]
        source == nodes[c.sourceNodeId]
        target == nodes[c.targetNodeId]
    IN (c.connected /\ source # NoNode /\ target # NoNode) =>
         /\ <<source, c.sourceOutput, target, c.targetInput>> \in native
         /\ c.sourceOutput \in DOMAIN outputs[source]
         /\ <<target, c.targetInput>> \in outputs[source][c.sourceOutput]

\* -------------------------------------------------------------------- C24

\* The value of every parameter of object o, by name.
ParameterValues(o) == [n \in DOMAIN parameters[o] |-> parameters[o][n].value]

\* C24: deserialize of the data a module serialized, the module being
\* disposed, returns, and the module it returns is registered and has the id,
\* the kind, the position, the parameter values, the waveform and the active
\* flag the data records.
C24_SerializeRoundTrip ==
  last.op = "deserialize" =>
    /\ last.err = "none"
    /\ objState[DeserializedObj] = "live"
    /\ nodes[serialized.id] = DeserializedObj
    /\ idOf(DeserializedObj) = serialized.id
    /\ NodeTable[DeserializedObj].kind = serialized.type
    /\ position[DeserializedObj] = serialized.position
    /\ ParameterValues(DeserializedObj) = serialized.parameters
    /\ oscillator[DeserializedObj].currentWaveform = serialized.waveform
    /\ isActive[DeserializedObj] = serialized.isActive

\* -------------------------------------------------------------------- C25

\* What a getUI() call returns, with every declaration by its fields.
Returns(lists, heap) ==
  [knobs |-> [i \in 1..Len(lists.knobs) |-> heap[lists.knobs[i]]],
   leds |-> [i \in 1..Len(lists.leds) |-> heap[lists.leds[i]]]]

\* C25: whatever the caller did to the structures getUI() returned, getUI()
\* returns the declarations defineUI() made, and setParameter dispatches to
\* the knob and the LED those declarations name.
C25_GetUIDefensive ==
  /\ Returns(getUI(ui), declarations) = Returns(OscillatorUI, OscillatorDeclarations)
  /\ \A name \in ParameterNames :
       Dispatch(ui, declarations, name) =
         Dispatch(OscillatorUI, OscillatorDeclarations, name)

\* -------------------------------------------------------------------- C31

\* canConnect(q), as the manager answers it in the current state.
CanConnectOf(q) ==
  CanConnect(State, maxConnections, q[1], q[2], q[3], q[4])

\* C31: whenever canConnect answers true for a request, the connect of the
\* same request made in the same state returns an id, provided the native
\* connect does not throw.
C31_CanConnectImpliesConnect ==
  \A q \in Requests :
    CanConnectOf(q) = "ok" =>
      \A connectionId \in generateConnectionId(connections) :
        ConnectOf(q, connectionId, FALSE).err = "none"

\* canConnect answered true for a request between two distinct registered
\* nodes while the ledger holds a connection, and some other request is
\* refused by canConnect for a missing port.
C31_Witness ==
  /\ last.op = "canConnect"
  /\ last.err = "ok"
  /\ last.args[1] # last.args[2]
  /\ \E q \in Requests : CanConnectOf(q) \in {"OutputNotFound", "InputNotFound"}
  /\ \E connectionId \in generateConnectionId(connections) :
       ConnectOf(<<last.args[1], "output", last.args[2], "input">>,
                 connectionId, FALSE).err = "none"

\* -------------------------------------------------------------------- C32

\* The onStart and onStop invocations `seq` continue a history whose last
\* such invocation was `prev` ("" when there was none) in strict alternation
\* beginning with onStart.
RECURSIVE Alternates(_, _)
Alternates(prev, seq) ==
  IF seq = <<>> THEN TRUE
  ELSE /\ Head(seq) = "onStart" => prev # "onStart"
       /\ Head(seq) = "onStop" => prev = "onStart"
       /\ Alternates(Head(seq), Tail(seq))

\* C32: the onStart and onStop invocations a start(), stop(), activate() or
\* deactivate() call makes on an object continue the object's earlier ones
\* in strict alternation beginning with onStart: onStop is invoked only when
\* the last of the two invoked before it was onStart.
C32_HookAlternation ==
  [][last'.op \in {"start", "stop", "activate", "deactivate"} =>
       Alternates(lastHook[last'.args[1]], StartStops(hooks'))]_vars

\* C32 for the calls made on an object on which neither activate() nor
\* deactivate() has acted: there the flag is set exactly when the last of the
\* two hooks invoked was onStart.
C32_StartStopOnly ==
  [][(/\ last'.op \in {"start", "stop"}
      /\ isActive[last'.args[1]] <=> lastHook[last'.args[1]] = "onStart") =>
       /\ Alternates(lastHook[last'.args[1]], StartStops(hooks'))
       /\ isActive'[last'.args[1]] <=> lastHook'[last'.args[1]] = "onStart"]_vars

\* -------------------------------------------------------------------- C33

\* No port of any node holds a link that disconnect call `args` names: the
\* call has nothing to disconnect.
NothingToDisconnect(args) ==
  CASE Len(args) = 1 -> \A n \in DOMAIN outputs[args[1]] : outputs[args[1]][n] = {}
    [] Len(args) = 2 -> outputs[args[1]][args[2]] = {}
    [] OTHER -> <<args[3], args[4]>> \notin outputs[args[1]][args[2]]

\* The ports disconnect call `args` names exist.
NamedPortsExist(args) ==
  /\ Len(args) >= 2 => args[2] \in DOMAIN outputs[args[1]]
  /\ Len(args) = 4 => args[4] \in DOMAIN inputs[args[3]]

\* C33: a node's disconnect, at each granularity, throws only when a port it
\* names does not exist; when the ports exist and the link is not connected
\* it returns and leaves every connected flag and every fan-out set as it was.
C33_DisconnectNothing ==
  [][last'.op = "node.disconnect" =>
       /\ last'.err # "none" => ~NamedPortsExist(last'.args)
       /\ (NamedPortsExist(last'.args) /\ NothingToDisconnect(last'.args)) =>
            (last'.err = "none" /\ UNCHANGED <<inputs, outputs>>)]_vars

\* C33 for disconnect() and disconnect(outputName), and for
\* disconnect(outputName, target, inputName) when the native disconnect
\* returns and no other output is linked to the target input.
C33_WholeOutput ==
  [][(/\ last'.op = "node.disconnect"
      /\ Len(last'.args) = 4 =>
           (/\ last'.err # "NativeDisconnectFailed"
            /\ NamedPortsExist(last'.args) => ~inputs[last'.args[3]][last'.args[4]])) =>
       /\ last'.err # "none" => ~NamedPortsExist(last'.args)
       /\ (NamedPortsExist(last'.args) /\ NothingToDisconnect(last'.args)) =>
            (last'.err = "none" /\ UNCHANGED <<inputs, outputs>>)]_vars

\* -------------------------------------------------------------------- C34

\* C34: the platform holds at most one metering callback of the output
\* module, the one levelMonitoringId names; once dispose() has been called
\* on the module it holds none and the module names none, so that none runs
\* and none is scheduled.
C34_MeteringCancelled ==
  /\ Cardinality(frames) <= 1
  /\ frames \subseteq {levelMonitoringId}
  /\ (objState[OutputObj] = "disposed" \/ last.op = "dispose") =>
       (frames = {} /\ levelMonitoringId = NoHandle)

\* dispose() was called on an output module whose metering callback had run
\* and had been scheduled again.
C34_Witness ==
  /\ last.op = "dispose"
  /\ objState[OutputObj] = "disposed"
  /\ handles >= 2
  /\ frames = {}

\* -------------------------------------------------------------------- C35

\* C35: a state change invokes no callback whose unsubscribe function has
\* been called, and none that was subscribed when a close() completed, the
\* state changes of a context a later initialize() constructed included.
C35_ListenersStop ==
  last.op = "statechange" =>
    last.args[2] \cap (stale.unsubscribed \cup stale.closed) = {}

\* C35 for unsubscription alone: a state change invokes no callback whose
\* unsubscribe function has been called.
C35_Unsubscribed ==
  last.op = "statechange" => last.args[2] \cap stale.unsubscribed = {}

\* A state change invoked a callback while another was unsubscribed.
C35_UnsubscribedWitness ==
  /\ last.op = "statechange"
  /\ last.args[2] # {}
  /\ stale.unsubscribed # {}

\* -------------------------------------------------------------------- C36

\* The module declares an LED with the id ledId.
DeclaredLED(ledId) ==
  \E i \in 1..Len(ui.leds) : declarations[ui.leds[i]].id = ledId

\* C36: setLEDState makes no hook call for an id that is no declared LED;
\* for a declared LED it calls onLEDStateChange once, with the id, isOn and
\* the intensity supplied, 0 included, and with 1.0 when none is supplied.
C36_LEDIntensity ==
  last.op = "setLEDState" =>
    LET ledId == last.args[1]
        isOn == last.args[2]
        intensity == last.args[3]
        calls == last.args[4]
    IN IF ~DeclaredLED(ledId) THEN calls = <<>>
       ELSE calls = << [hook |-> "onLEDStateChange", id |-> ledId, isOn |-> isOn,
                        intensity |-> IF intensity = Undefined
                                      THEN FullIntensity ELSE intensity] >>

\* C36 for every intensity but 0.
C36_NonZeroIntensity ==
  (last.op = "setLEDState" /\ last.args[3] # 0) =>
    LET ledId == last.args[1]
        isOn == last.args[2]
        intensity == last.args[3]
        calls == last.args[4]
    IN IF ~DeclaredLED(ledId) THEN calls = <<>>
       ELSE calls = << [hook |-> "onLEDStateChange", id |-> ledId, isOn |-> isOn,
                        intensity |-> IF intensity = Undefined
                                      THEN FullIntensity ELSE intensity] >>

\* -------------------------------------------------------------------- C37

\* C37: every hook call a setParameter(name, v) makes carries the value the
\* parameter holds afterwards, the clamped one.
C37_HooksSeeStoredValue ==
  (last.op = "setParameter" /\ last.err = "none") =>
    \A i \in 1..Len(last.args[4]) :
      last.args[4][i].value = parameters[last.args[1]][last.args[2]].value

\* C37 for the values within the parameter's bounds.
C37_WithinBounds ==
  (/\ last.op = "setParameter"
   /\ last.err = "none"
   /\ \E i \in 1..Len(last.args[4]) :
        /\ parameters[last.args[1]][last.args[2]].minValue <= last.args[4][i].value
        /\ last.args[4][i].value <= parameters[last.args[1]][last.args[2]].maxValue) =>
    \A i \in 1..Len(last.args[4]) :
      last.args[4][i].value = parameters[last.args[1]][last.args[2]].value

\* -------------------------------------------------------------------- C38

\* C38: a gain node constructed with {minGain: a, maxGain: b, initialGain: g},
\* a <= g <= b, has the 'gain' parameter with minValue a and maxValue b,
\* getGain() is g when the constructor returns, and after every setGain(v),
\* NaN left aside, getGain() lies in [a, b].
C38_GainConfigHonoured ==
  (objState[GainNodeObj] = "live" /\ config[GainNodeObj] # NoGainConfig) =>
    LET cfg == config[GainNodeObj]
        gain == parameters[GainNodeObj]["gain"]
    IN /\ gain.minValue = cfg.minGain
       /\ gain.maxValue = cfg.maxGain
       /\ last.op = "new EurorackGainNode" => getGain(State, GainNodeObj) = cfg.initialGain
       /\ (last.op = "setGain" /\ getGain(State, GainNodeObj) # NaN) =>
            /\ cfg.minGain <= getGain(State, GainNodeObj)
            /\ getGain(State, GainNodeObj) <= cfg.maxGain

\* C38 for the node constructed with no configuration, or with the one that
\* repeats the defaults: the parameter has the bounds 0 and 2 and starts at
\* 1, and after every setGain(v), NaN left aside, getGain() lies in [0, 2].
C38_DefaultGain ==
  (/\ objState[GainNodeObj] = "live"
   /\ config[GainNodeObj] \in
        {NoGainConfig, [minGain |-> 0, maxGain |-> 2, initialGain |-> 1]}) =>
    LET gain == parameters[GainNodeObj]["gain"]
    IN /\ gain.minValue = 0
       /\ gain.maxValue = 2
       /\ last.op = "new EurorackGainNode" => getGain(State, GainNodeObj) = 1
       /\ (last.op = "setGain" /\ getGain(State, GainNodeObj) # NaN) =>
            (0 <= getGain(State, GainNodeObj) /\ getGain(State, GainNodeObj) <= 2)

\* -------------------------------------------------------------------- C39

\* The answers of canConnect: true, or one of its reasons.
CanConnectAnswers ==
  {"ok", "SourceNodeNotFound", "TargetNodeNotFound", "OutputNotFound",
   "InputNotFound", "InputAlreadyConnected", "ConnectionLimit", "FeedbackLoop"}

\* The search wouldCreateCycle(fromNodeId, toNodeId) runs on the ledger.
SearchOf(fromNodeId, toNodeId) ==
  hasPath(connections, toNodeId, fromNodeId, {}, <<>>)

\* No node occurs twice in the sequence.
NoRepeat(seq) ==
  \A i, j \in 1..Len(seq) : seq[i] = seq[j] => i = j

\* Some connection of the ledger that the search from nodeId can reach lies
\* on a cycle, a self-loop included.
ReachesCycle(nodeId) ==
  \E e \in Edges : e[1] \in ReachableFrom({nodeId}) /\ Reaches(e[2], e[1])

\* C39: in every state of the ledger, cyclic ones included, canConnect gives
\* an answer for every request, and the search of wouldCreateCycle fetches
\* the outgoing connections of each node at most once per call.
C39_CanConnectTerminates ==
  /\ \A q \in NodeIds \X OutputNames \X NodeIds \X SearchInputNames :
       CanConnectOf(q) \in CanConnectAnswers
  /\ \A fromNodeId, toNodeId \in NodeIds :
       LET r == SearchOf(fromNodeId, toNodeId)
       IN /\ r.found \in BOOLEAN
          /\ NoRepeat(r.expanded)
          /\ {r.expanded[i] : i \in 1..Len(r.expanded)} = r.visited

\* canConnect answered true after a search that ran into a cycle of the
\* ledger: the search started at a node from which a cycle can be reached,
\* and did not find the source.
C39_Witness ==
  /\ last.op = "canConnect"
  /\ last.err = "ok"
  /\ ReachesCycle(last.args[2])
  /\ ~SearchOf(last.args[1], last.args[2]).found
  /\ Len(SearchOf(last.args[1], last.args[2]).expanded) >= 2

\* -------------------------------------------------------------------- C40

\* The ids of the ledger.
LedgerIds == {connections[i].id : i \in 1..Len(connections)}

\* C40: a connect that returns an id leaves the ledger one connection
\* longer: every connection it held is still there, unchanged and in its
\* place, and the one connection added carries an id the ledger did not hold.
C40_ConnectAddsOne ==
  [][(last'.op = "connect" /\ last'.err = "none") =>
       /\ Len(connections') = Len(connections) + 1
       /\ \A i \in 1..Len(connections) : connections'[i] = connections[i]
       /\ connections'[Len(connections')].id \notin LedgerIds]_vars

\* C40 for the connects whose id no live connection carries: the ledger grows
\* by that one connection, and the others stay as they were.
C40_FreshId ==
  [][(/\ last'.op = "connect"
      /\ last'.err = "none"
      /\ \E c \in {connections'[i] : i \in 1..Len(connections')} :
           c.id \notin LedgerIds) =>
       /\ Len(connections') = Len(connections) + 1
       /\ \A i \in 1..Len(connections) : connections'[i] = connections[i]]_vars

====
